---- MODULE Spec2Model ----
(***************************************************************************)
(* The slide-deck generators of docs/promotional-campaign/presentations:   *)
(* four scripts that build a presentation by calling the builder functions *)
(* they define (add_dark_slide, add_title, add_subtitle, add_code_block,   *)
(* add_bullet_point, add_service_box, add_box) and the presentation        *)
(* library's own calls (add_shape, add_textbox, property assignments),     *)
(* then save it and print a confirmation.                                  *)
(*                                                                         *)
(* A run is modelled statement by statement: Program1..Program4 list the   *)
(* statements each script executes, in execution order and with the        *)
(* arguments the script passes (loops unrolled, defaults filled in, every  *)
(* entry carrying its source line).  One action per kind of statement.     *)
(***************************************************************************)
EXTENDS Integers, Sequences, FiniteSets, TLC

(***************************************************************************)
(* Units.  Lengths are integers in English Metric Units, 914400 to the     *)
(* inch.  Inches(x) is int(x * 914400) on a binary floating-point x; the   *)
(* argument here is x in thousandths of an inch.  The truncation follows   *)
(* the floating-point product, which for the literals in FloatBelow lies   *)
(* just under the exact (integer) product: Inches(4.1) is 3749039, not     *)
(* 3749040.  914400 / 1000 = 4572 / 5.                                     *)
(***************************************************************************)
FloatBelow ==
  {285, 565, 570, 1005, 1015, 1025, 1035, 1045, 1130, 1140, 2010, 2030,
   2050, 2070, 2090, 2135, 2155, 2175, 2195, 2215, 2260, 2280, 4015, 4020,
   4055, 4060, 4100, 4140, 4145, 4180, 4185, 4225, 4265, 4270, 4305, 4310,
   4350, 4390, 4395, 4430, 4435, 4475, 4515, 4520, 4555, 4560, 8030, 8040,
   8075, 8110, 8120, 8155, 8165, 8200, 8235, 8245, 8280, 8290, 8325, 8360,
   8370, 8405, 8415, 8450, 8485, 8495, 8530, 8540, 8575, 8610, 8620, 8655,
   8665, 8700, 8735, 8745, 8780, 8790, 8825, 8860, 8870, 8905, 8915, 8950,
   8985, 8995, 9030, 9040, 9075, 9110, 9120, 9155, 9165}

Inches(milli) ==
  IF milli \in FloatBelow THEN (milli * 4572) \div 5 - 1 ELSE (milli * 4572) \div 5

\* Pt(n): n points of 12700 EMU each
Pt(points) == points * 12700

RGBColor(r, g, b) == <<r, g, b>>

(***************************************************************************)
(* The colour palettes, one per script: the module-level colour names of   *)
(* script n, each written Vn_NAME here, and the record of them by name.     *)
(***************************************************************************)
V1_DARK_BG == RGBColor(24, 24, 27)
V1_WHITE == RGBColor(255, 255, 255)
V1_RED == RGBColor(239, 68, 68)
V1_YELLOW == RGBColor(245, 158, 11)
V1_GREEN == RGBColor(34, 197, 94)
V1_BLUE == RGBColor(59, 130, 246)
V1_GRAY == RGBColor(161, 161, 170)

Palette1 ==
  [DARK_BG |-> V1_DARK_BG, WHITE |-> V1_WHITE, RED |-> V1_RED,
   YELLOW |-> V1_YELLOW, GREEN |-> V1_GREEN, BLUE |-> V1_BLUE, GRAY |-> V1_GRAY]

V2_DARK_BG == RGBColor(24, 24, 27)
V2_WHITE == RGBColor(255, 255, 255)
V2_RED == RGBColor(239, 68, 68)
V2_YELLOW == RGBColor(245, 158, 11)
V2_GREEN == RGBColor(34, 197, 94)
V2_BLUE == RGBColor(59, 130, 246)
V2_GRAY == RGBColor(161, 161, 170)
V2_AUTH0_ORANGE == RGBColor(235, 84, 36)
V2_STRIPE_PURPLE == RGBColor(99, 91, 255)
V2_INVENTORY_GREEN == RGBColor(16, 185, 129)

Palette2 ==
  [DARK_BG |-> V2_DARK_BG, WHITE |-> V2_WHITE, RED |-> V2_RED,
   YELLOW |-> V2_YELLOW, GREEN |-> V2_GREEN, BLUE |-> V2_BLUE,
   GRAY |-> V2_GRAY, AUTH0_ORANGE |-> V2_AUTH0_ORANGE,
   STRIPE_PURPLE |-> V2_STRIPE_PURPLE, INVENTORY_GREEN |-> V2_INVENTORY_GREEN]

V3_DARK_BG == RGBColor(24, 24, 27)
V3_WHITE == RGBColor(255, 255, 255)
V3_ZINC_400 == RGBColor(161, 161, 170)
V3_YELLOW == RGBColor(245, 158, 11)
V3_GREEN == RGBColor(34, 197, 94)
V3_RED == RGBColor(239, 68, 68)
V3_BLUE == RGBColor(59, 130, 246)
V3_USER_BLUE == RGBColor(59, 130, 246)
V3_INVENTORY_GREEN == RGBColor(34, 197, 94)
V3_SHIPPING_PURPLE == RGBColor(168, 85, 247)

Palette3 ==
  [DARK_BG |-> V3_DARK_BG, WHITE |-> V3_WHITE, ZINC_400 |-> V3_ZINC_400,
   YELLOW |-> V3_YELLOW, GREEN |-> V3_GREEN, RED |-> V3_RED, BLUE |-> V3_BLUE,
   USER_BLUE |-> V3_USER_BLUE, INVENTORY_GREEN |-> V3_INVENTORY_GREEN,
   SHIPPING_PURPLE |-> V3_SHIPPING_PURPLE]

V4_DARK_BG == RGBColor(24, 24, 27)
V4_WHITE == RGBColor(255, 255, 255)
V4_ZINC_400 == RGBColor(161, 161, 170)
V4_YELLOW == RGBColor(245, 158, 11)
V4_GREEN == RGBColor(34, 197, 94)
V4_RED == RGBColor(239, 68, 68)
V4_BLUE == RGBColor(59, 130, 246)
V4_PURPLE == RGBColor(168, 85, 247)

Palette4 ==
  [DARK_BG |-> V4_DARK_BG, WHITE |-> V4_WHITE, ZINC_400 |-> V4_ZINC_400,
   YELLOW |-> V4_YELLOW, GREEN |-> V4_GREEN, RED |-> V4_RED, BLUE |-> V4_BLUE,
   PURPLE |-> V4_PURPLE]

Palette == <<Palette1, Palette2, Palette3, Palette4>>

(***************************************************************************)
(* Elements.  A slide is [id, shapes]; shapes is the slide's element       *)
(* sequence in z-order (back to front).  An element records what the       *)
(* scripts give it: its kind and box, its fill and line, the text frame's  *)
(* word_wrap and its paragraphs.  "None", 0 and << >> stand for a property *)
(* the script has not assigned (Python's None): the library's default then *)
(* applies.  id is the element's (the slide's) creation ordinal: it tells  *)
(* one object from another.                                                *)
(***************************************************************************)
EmptyParagraph ==
  [text |-> "", size |-> 0, bold |-> "None", color |-> << >>, name |-> "None",
   alignment |-> "None"]

NewShape(id, type, kind, left, top, width, height) ==
  [id |-> id, type |-> type, kind |-> kind,
   left |-> left, top |-> top, width |-> width, height |-> height,
   fill |-> [type |-> "None", rgb |-> << >>],
   line |-> [fill |-> "None", rgb |-> << >>, width |-> 0],
   word_wrap |-> "None",
   paragraphs |-> <<EmptyParagraph>>]

(***************************************************************************)
(* The library calls the scripts make.  Each takes the element sequence of *)
(* a slide (slide.shapes) and returns it changed; sp is the index of the   *)
(* element a handle refers to, par the index of a paragraph in its text    *)
(* frame (from 1: paragraphs[0] is par = 1).                               *)
(***************************************************************************)
\* mutant of add_slide: the new slide is put first in the deck
add_slide_first(deck) == <<[id |-> Len(deck) + 1, shapes |-> << >>]>> \o deck

\* prs.slides.add_slide(layout): a new blank slide, last in the deck
add_slide(deck) == Append(deck, [id |-> Len(deck) + 1, shapes |-> << >>])

\* mutant of add_shape: the size is taken for the position and the position for
\* the size
add_shape_size_first(shapes, kind, left, top, width, height) ==
  Append(shapes, NewShape(Len(shapes) + 1, "autoshape", kind, width, height, left, top))

\* slide.shapes.add_shape(kind, left, top, width, height)
add_shape(shapes, kind, left, top, width, height) ==
  Append(shapes, NewShape(Len(shapes) + 1, "autoshape", kind, left, top, width, height))

\* mutant of add_textbox: the new element is put at the back of the z-order
add_textbox_at_back(shapes, left, top, width, height) ==
  <<NewShape(Len(shapes) + 1, "textbox", "TEXT_BOX", left, top, width, height)>> \o shapes

\* slide.shapes.add_textbox(left, top, width, height)
add_textbox(shapes, left, top, width, height) ==
  Append(shapes, NewShape(Len(shapes) + 1, "textbox", "TEXT_BOX", left, top, width, height))

\* shape.fill.solid()
fill_solid(shapes, sp) == [shapes EXCEPT ![sp].fill.type = "solid"]

\* shape.fill.fore_color.rgb = rgb
set_fill_fore_color(shapes, sp, rgb) == [shapes EXCEPT ![sp].fill.rgb = rgb]

\* shape.line.fill.background(): no outline
line_fill_background(shapes, sp) == [shapes EXCEPT ![sp].line.fill = "background"]

\* shape.line.color: reading it makes the outline solid, of no colour yet
line_color(shapes, sp) == [shapes EXCEPT ![sp].line.fill = "solid"]

\* shape.line.color.rgb = rgb: a solid outline of that colour
set_line_color(shapes, sp, rgb) ==
  [line_color(shapes, sp) EXCEPT ![sp].line.rgb = rgb]

\* text_frame.word_wrap = value
set_word_wrap(shapes, sp, value) == [shapes EXCEPT ![sp].word_wrap = value]

\* text_frame.add_paragraph(): a new empty paragraph, last in the text frame
add_paragraph(shapes, sp) ==
  [shapes EXCEPT ![sp].paragraphs = Append(@, EmptyParagraph)]

\* p.text = text
set_text(shapes, sp, par, text) == [shapes EXCEPT ![sp].paragraphs[par].text = text]

\* p.font.size = size
set_font_size(shapes, sp, par, size) == [shapes EXCEPT ![sp].paragraphs[par].size = size]

\* p.font.bold = value
set_font_bold(shapes, sp, par, value) == [shapes EXCEPT ![sp].paragraphs[par].bold = value]

\* p.font.color.rgb = rgb
set_font_color(shapes, sp, par, rgb) == [shapes EXCEPT ![sp].paragraphs[par].color = rgb]

\* p.font.name = name
set_font_name(shapes, sp, par, name) == [shapes EXCEPT ![sp].paragraphs[par].name = name]

\* p.alignment = value
set_alignment(shapes, sp, par, value) ==
  [shapes EXCEPT ![sp].paragraphs[par].alignment = value]

Last(seq) == seq[Len(seq)]

(***************************************************************************)
(* The builder functions, as each script defines them.  Scripts 1 and 2    *)
(* define the same add_title, add_subtitle, add_code_block and             *)
(* add_bullet_point; scripts 3 and 4 the same add_title, add_subtitle and  *)
(* add_bullet_point.  add_dark_slide is the same in all four.  A builder   *)
(* is a sequence of library calls; its result is what the last one leaves. *)
(***************************************************************************)
\* mutant of add_dark_slide: the background takes the size of the library's
\* default template instead of the presentation's
add_dark_slide_default_size(v, deck, slide_width, slide_height) ==
  LET d1 == add_slide(deck)
      slide == Len(d1)
      bg == Len(d1[slide].shapes) + 1
      s1 == add_shape(d1[slide].shapes, "RECTANGLE", 0, 0, Inches(10000), Inches(7500))
      s2 == fill_solid(s1, bg)
      s3 == set_fill_fore_color(s2, bg, Palette[v].DARK_BG)
      s4 == line_fill_background(s3, bg)
  IN  [deck |-> [d1 EXCEPT ![slide].shapes = s4], slide |-> slide]

\* mutant of add_dark_slide: the deck's first slide is returned, not the new one
add_dark_slide_returns_first(v, deck, slide_width, slide_height) ==
  LET d1 == add_slide(deck)
      slide == Len(d1)
      bg == Len(d1[slide].shapes) + 1
      s1 == add_shape(d1[slide].shapes, "RECTANGLE", 0, 0, slide_width, slide_height)
      s2 == fill_solid(s1, bg)
      s3 == set_fill_fore_color(s2, bg, Palette[v].DARK_BG)
      s4 == line_fill_background(s3, bg)
  IN  [deck |-> [d1 EXCEPT ![slide].shapes = s4], slide |-> 1]

\* the deck after each library call of add_dark_slide, in the order the
\* builder makes them
add_dark_slide_calls(v, deck, slide_width, slide_height) ==
  LET d1 == add_slide(deck)
      slide == Len(d1)
      bg == Len(d1[slide].shapes) + 1
      s1 == add_shape(d1[slide].shapes, "RECTANGLE", 0, 0, slide_width, slide_height)
      s2 == fill_solid(s1, bg)
      s3 == set_fill_fore_color(s2, bg, Palette[v].DARK_BG)
      s4 == line_fill_background(s3, bg)
  IN  <<d1,
        [d1 EXCEPT ![slide].shapes = s1],
        [d1 EXCEPT ![slide].shapes = s2],
        [d1 EXCEPT ![slide].shapes = s3],
        [d1 EXCEPT ![slide].shapes = s4]>>

\* add_dark_slide(prs): the deck with the new slide, and the slide returned
add_dark_slide(v, deck, slide_width, slide_height) ==
  LET d == Last(add_dark_slide_calls(v, deck, slide_width, slide_height))
  IN  [deck |-> d, slide |-> Len(d)]

\* mutant of add_title_v1: the title is not made bold
add_title_v1_not_bold(shapes, text, top, font_size, color) ==
  LET txBox == Len(shapes) + 1
      s1 == add_textbox(shapes, Inches(500), top, Inches(12333), Inches(1500))
      s2 == set_word_wrap(s1, txBox, "True")
      s3 == set_text(s2, txBox, 1, text)
      s4 == set_font_size(s3, txBox, 1, Pt(font_size))
      s6 == set_font_color(s4, txBox, 1, color)
  IN  set_alignment(s6, txBox, 1, "CENTER")

\* slide.shapes after each library call of add_title, in the order the
\* builder makes them
add_title_v1_calls(shapes, text, top, font_size, color) ==
  LET txBox == Len(shapes) + 1
      s1 == add_textbox(shapes, Inches(500), top, Inches(12333), Inches(1500))
      s2 == set_word_wrap(s1, txBox, "True")
      s3 == set_text(s2, txBox, 1, text)
      s4 == set_font_size(s3, txBox, 1, Pt(font_size))
      s5 == set_font_bold(s4, txBox, 1, "True")
      s6 == set_font_color(s5, txBox, 1, color)
  IN  <<s1, s2, s3, s4, s5, s6, set_alignment(s6, txBox, 1, "CENTER")>>

add_title_v1(shapes, text, top, font_size, color) ==
  Last(add_title_v1_calls(shapes, text, top, font_size, color))

\* slide.shapes after each library call of add_title, in the order the
\* builder makes them
add_title_v3_calls(shapes, text, top, font_size, color) ==
  LET txBox == Len(shapes) + 1
      s1 == add_textbox(shapes, Inches(500), top, Inches(12330), Inches(1000))
      s2 == set_word_wrap(s1, txBox, "True")
      s3 == set_text(s2, txBox, 1, text)
      s4 == set_font_size(s3, txBox, 1, Pt(font_size))
      s5 == set_font_color(s4, txBox, 1, color)
      s6 == set_font_bold(s5, txBox, 1, "True")
  IN  <<s1, s2, s3, s4, s5, s6, set_alignment(s6, txBox, 1, "CENTER")>>

add_title_v3(shapes, text, top, font_size, color) ==
  Last(add_title_v3_calls(shapes, text, top, font_size, color))

add_title_calls(v, shapes, text, top, font_size, color) ==
  IF v \in {1, 2} THEN add_title_v1_calls(shapes, text, top, font_size, color)
                  ELSE add_title_v3_calls(shapes, text, top, font_size, color)

add_title(v, shapes, text, top, font_size, color) ==
  IF v \in {1, 2} THEN add_title_v1(shapes, text, top, font_size, color)
                  ELSE add_title_v3(shapes, text, top, font_size, color)

\* slide.shapes after each library call of add_subtitle, in the order the
\* builder makes them
add_subtitle_v1_calls(shapes, text, top, font_size, color) ==
  LET txBox == Len(shapes) + 1
      s1 == add_textbox(shapes, Inches(1000), top, Inches(11333), Inches(1000))
      s2 == set_word_wrap(s1, txBox, "True")
      s3 == set_text(s2, txBox, 1, text)
      s4 == set_font_size(s3, txBox, 1, Pt(font_size))
      s5 == set_font_color(s4, txBox, 1, color)
  IN  <<s1, s2, s3, s4, s5, set_alignment(s5, txBox, 1, "CENTER")>>

add_subtitle_v1(shapes, text, top, font_size, color) ==
  Last(add_subtitle_v1_calls(shapes, text, top, font_size, color))

\* slide.shapes after each library call of add_subtitle, in the order the
\* builder makes them
add_subtitle_v3_calls(shapes, text, top, font_size, color) ==
  LET txBox == Len(shapes) + 1
      s1 == add_textbox(shapes, Inches(500), top, Inches(12330), Inches(1000))
      s2 == set_word_wrap(s1, txBox, "True")
      s3 == set_text(s2, txBox, 1, text)
      s4 == set_font_size(s3, txBox, 1, Pt(font_size))
      s5 == set_font_color(s4, txBox, 1, color)
  IN  <<s1, s2, s3, s4, s5, set_alignment(s5, txBox, 1, "CENTER")>>

add_subtitle_v3(shapes, text, top, font_size, color) ==
  Last(add_subtitle_v3_calls(shapes, text, top, font_size, color))

add_subtitle_calls(v, shapes, text, top, font_size, color) ==
  IF v \in {1, 2} THEN add_subtitle_v1_calls(shapes, text, top, font_size, color)
                  ELSE add_subtitle_v3_calls(shapes, text, top, font_size, color)

add_subtitle(v, shapes, text, top, font_size, color) ==
  IF v \in {1, 2} THEN add_subtitle_v1(shapes, text, top, font_size, color)
                  ELSE add_subtitle_v3(shapes, text, top, font_size, color)

\* mutant of add_code_block_v1: the code is cut to what fits one line of the box
add_code_block_v1_truncated(shapes, code, left, top, width, height) ==
  LET shape == Len(shapes) + 1
      s1 == add_shape(shapes, "ROUNDED_RECTANGLE", left, top, width, height)
      s2 == fill_solid(s1, shape)
      s3 == set_fill_fore_color(s2, shape, RGBColor(39, 39, 42))
      s4 == line_fill_background(s3, shape)
      txBox == Len(s4) + 1
      s5 == add_textbox(s4, left + Inches(200), top + Inches(200),
                        width - Inches(400), height - Inches(400))
      s6 == set_word_wrap(s5, txBox, "False")
      s7 == set_text(s6, txBox, 1, SubSeq(code, 1, width \div Pt(14)))
      s8 == set_font_size(s7, txBox, 1, Pt(14))
      s9 == set_font_name(s8, txBox, 1, "Menlo")
  IN  set_font_color(s9, txBox, 1, RGBColor(228, 228, 231))

\* scripts 1 and 2: a rounded rectangle, then the text inset by 0.2 in
\* slide.shapes after each library call of add_code_block, in the order the
\* builder makes them
add_code_block_v1_calls(shapes, code, left, top, width, height) ==
  LET shape == Len(shapes) + 1
      s1 == add_shape(shapes, "ROUNDED_RECTANGLE", left, top, width, height)
      s2 == fill_solid(s1, shape)
      s3 == set_fill_fore_color(s2, shape, RGBColor(39, 39, 42))
      s4 == line_fill_background(s3, shape)
      txBox == Len(s4) + 1
      s5 == add_textbox(s4, left + Inches(200), top + Inches(200),
                        width - Inches(400), height - Inches(400))
      s6 == set_word_wrap(s5, txBox, "False")
      s7 == set_text(s6, txBox, 1, code)
      s8 == set_font_size(s7, txBox, 1, Pt(14))
      s9 == set_font_name(s8, txBox, 1, "Menlo")
  IN  <<s1, s2, s3, s4, s5, s6, s7, s8, s9,
       set_font_color(s9, txBox, 1, RGBColor(228, 228, 231))>>

add_code_block_v1(shapes, code, left, top, width, height) ==
  Last(add_code_block_v1_calls(shapes, code, left, top, width, height))

\* script 3: one text box, itself filled; no backing shape
\* slide.shapes after each library call of add_code_block, in the order the
\* builder makes them
add_code_block_v3_calls(shapes, code, left, top, width, height, font_size) ==
  LET txBox == Len(shapes) + 1
      s1 == add_textbox(shapes, left, top, width, height)
      s2 == set_word_wrap(s1, txBox, "False")
      s3 == fill_solid(s2, txBox)
      s4 == set_fill_fore_color(s3, txBox, RGBColor(39, 39, 42))
      s5 == set_text(s4, txBox, 1, code)
      s6 == set_font_size(s5, txBox, 1, Pt(font_size))
      s7 == set_font_color(s6, txBox, 1, RGBColor(167, 243, 208))
  IN  <<s1, s2, s3, s4, s5, s6, s7, set_font_name(s7, txBox, 1, "Menlo")>>

add_code_block_v3(shapes, code, left, top, width, height, font_size) ==
  Last(add_code_block_v3_calls(shapes, code, left, top, width, height, font_size))

\* script 4: a plain rectangle, then the text inset by 0.2 in and 0.15 in
\* slide.shapes after each library call of add_code_block, in the order the
\* builder makes them
add_code_block_v4_calls(shapes, code, left, top, width, height, font_size) ==
  LET shape == Len(shapes) + 1
      s1 == add_shape(shapes, "RECTANGLE", left, top, width, height)
      s2 == fill_solid(s1, shape)
      s3 == set_fill_fore_color(s2, shape, RGBColor(39, 39, 42))
      s4 == line_fill_background(s3, shape)
      txBox == Len(s4) + 1
      s5 == add_textbox(s4, left + Inches(200), top + Inches(150),
                        width - Inches(400), height - Inches(300))
      s6 == set_word_wrap(s5, txBox, "False")
      s7 == set_text(s6, txBox, 1, code)
      s8 == set_font_size(s7, txBox, 1, Pt(font_size))
      s9 == set_font_color(s8, txBox, 1, RGBColor(228, 228, 231))
  IN  <<s1, s2, s3, s4, s5, s6, s7, s8, s9,
       set_font_name(s9, txBox, 1, "Menlo")>>

add_code_block_v4(shapes, code, left, top, width, height, font_size) ==
  Last(add_code_block_v4_calls(shapes, code, left, top, width, height, font_size))

add_code_block_calls(v, shapes, code, left, top, width, height, font_size) ==
  CASE v \in {1, 2} -> add_code_block_v1_calls(shapes, code, left, top, width, height)
    [] v = 3 -> add_code_block_v3_calls(shapes, code, left, top, width, height, font_size)
    [] v = 4 -> add_code_block_v4_calls(shapes, code, left, top, width, height, font_size)

\* font_size is a parameter in scripts 3 and 4 only
add_code_block(v, shapes, code, left, top, width, height, font_size) ==
  CASE v \in {1, 2} -> add_code_block_v1(shapes, code, left, top, width, height)
    [] v = 3 -> add_code_block_v3(shapes, code, left, top, width, height, font_size)
    [] v = 4 -> add_code_block_v4(shapes, code, left, top, width, height, font_size)

\* f"{icon}  {text}" if icon else text: two spaces in scripts 1 and 2
bullet_text_v1(text, icon) == IF icon # "" THEN icon \o "  " \o text ELSE text

\* f"{bullet} {text}" if bullet else text: one space in scripts 3 and 4
bullet_text_v3(text, bullet) == IF bullet # "" THEN bullet \o " " \o text ELSE text

\* slide.shapes after each library call of add_bullet_point, in the order the
\* builder makes them
add_bullet_point_v1_calls(shapes, text, left, top, color, icon) ==
  LET txBox == Len(shapes) + 1
      s1 == add_textbox(shapes, left, top, Inches(10000), Inches(600))
      s2 == set_text(s1, txBox, 1, bullet_text_v1(text, icon))
      s3 == set_font_size(s2, txBox, 1, Pt(28))
  IN  <<s1, s2, s3, set_font_color(s3, txBox, 1, color)>>

add_bullet_point_v1(shapes, text, left, top, color, icon) ==
  Last(add_bullet_point_v1_calls(shapes, text, left, top, color, icon))

\* mutant of add_bullet_point_v3: the text box is 0.6 in high, as in scripts 1
\* and 2
add_bullet_point_v3_tall(shapes, text, left, top, color, bullet) ==
  LET txBox == Len(shapes) + 1
      s1 == add_textbox(shapes, left, top, Inches(10000), Inches(600))
      s2 == set_text(s1, txBox, 1, bullet_text_v3(text, bullet))
      s3 == set_font_size(s2, txBox, 1, Pt(24))
  IN  set_font_color(s3, txBox, 1, color)

\* mutant of add_bullet_point_v3: word-wrap is switched on, as in add_title
add_bullet_point_v3_wrapped(shapes, text, left, top, color, bullet) ==
  LET txBox == Len(shapes) + 1
      s1 == add_textbox(shapes, left, top, Inches(10000), Inches(500))
      s0 == set_word_wrap(s1, txBox, "True")
      s2 == set_text(s0, txBox, 1, bullet_text_v3(text, bullet))
      s3 == set_font_size(s2, txBox, 1, Pt(24))
  IN  set_font_color(s3, txBox, 1, color)

\* slide.shapes after each library call of add_bullet_point, in the order the
\* builder makes them
add_bullet_point_v3_calls(shapes, text, left, top, color, bullet) ==
  LET txBox == Len(shapes) + 1
      s1 == add_textbox(shapes, left, top, Inches(10000), Inches(500))
      s2 == set_text(s1, txBox, 1, bullet_text_v3(text, bullet))
      s3 == set_font_size(s2, txBox, 1, Pt(24))
  IN  <<s1, s2, s3, set_font_color(s3, txBox, 1, color)>>

add_bullet_point_v3(shapes, text, left, top, color, bullet) ==
  Last(add_bullet_point_v3_calls(shapes, text, left, top, color, bullet))

add_bullet_point_calls(v, shapes, text, left, top, color, icon) ==
  IF v \in {1, 2} THEN add_bullet_point_v1_calls(shapes, text, left, top, color, icon)
                  ELSE add_bullet_point_v3_calls(shapes, text, left, top, color, icon)

add_bullet_point(v, shapes, text, left, top, color, icon) ==
  IF v \in {1, 2} THEN add_bullet_point_v1(shapes, text, left, top, color, icon)
                  ELSE add_bullet_point_v3(shapes, text, left, top, color, icon)

\* mutant of add_service_box: the text box is lowered by 0.3 in but shortened by
\* 0.2 in only
add_service_box_overhang(shapes, name, description, color, left, top, width, height) ==
  LET box == Len(shapes) + 1
      s1 == add_shape(shapes, "ROUNDED_RECTANGLE", left, top, width, height)
      s2 == fill_solid(s1, box)
      s3 == set_fill_fore_color(s2, box, color)
      s4 == line_fill_background(s3, box)
      txBox == Len(s4) + 1
      s5 == add_textbox(s4, left + Inches(200), top + Inches(300),
                        width - Inches(400), height - Inches(200))
      s6 == set_word_wrap(s5, txBox, "True")
      s7 == set_text(s6, txBox, 1, name)
      s8 == set_font_size(s7, txBox, 1, Pt(24))
      s9 == set_font_bold(s8, txBox, 1, "True")
      s10 == set_font_color(s9, txBox, 1, Palette2.WHITE)
      s11 == set_alignment(s10, txBox, 1, "CENTER")
      s12 == add_paragraph(s11, txBox)
      s13 == set_text(s12, txBox, 2, "\n" \o description)
      s14 == set_font_size(s13, txBox, 2, Pt(16))
      s15 == set_font_color(s14, txBox, 2, RGBColor(228, 228, 231))
  IN  set_alignment(s15, txBox, 2, "CENTER")

\* script 2: f"\n{description}" is the second paragraph
\* slide.shapes after each library call of add_service_box, in the order the
\* builder makes them
add_service_box_calls(shapes, name, description, color, left, top, width, height) ==
  LET box == Len(shapes) + 1
      s1 == add_shape(shapes, "ROUNDED_RECTANGLE", left, top, width, height)
      s2 == fill_solid(s1, box)
      s3 == set_fill_fore_color(s2, box, color)
      s4 == line_fill_background(s3, box)
      txBox == Len(s4) + 1
      s5 == add_textbox(s4, left + Inches(200), top + Inches(300),
                        width - Inches(400), height - Inches(400))
      s6 == set_word_wrap(s5, txBox, "True")
      s7 == set_text(s6, txBox, 1, name)
      s8 == set_font_size(s7, txBox, 1, Pt(24))
      s9 == set_font_bold(s8, txBox, 1, "True")
      s10 == set_font_color(s9, txBox, 1, Palette2.WHITE)
      s11 == set_alignment(s10, txBox, 1, "CENTER")
      s12 == add_paragraph(s11, txBox)
      s13 == set_text(s12, txBox, 2, "\n" \o description)
      s14 == set_font_size(s13, txBox, 2, Pt(16))
      s15 == set_font_color(s14, txBox, 2, RGBColor(228, 228, 231))
  IN  <<s1, s2, s3, s4, s5, s6, s7, s8, s9, s10, s11, s12, s13, s14, s15,
       set_alignment(s15, txBox, 2, "CENTER")>>

add_service_box(shapes, name, description, color, left, top, width, height) ==
  Last(add_service_box_calls(shapes, name, description, color, left, top, width, height))

\* script 4: the text goes into the shape's own text frame
\* slide.shapes after each library call of add_box, in the order the
\* builder makes them
add_box_calls(shapes, text, left, top, width, height, bg_color, text_color, font_size) ==
  LET shape == Len(shapes) + 1
      s1 == add_shape(shapes, "ROUNDED_RECTANGLE", left, top, width, height)
      s2 == fill_solid(s1, shape)
      s3 == set_fill_fore_color(s2, shape, bg_color)
      s4 == line_fill_background(s3, shape)
      s5 == set_word_wrap(s4, shape, "True")
      s6 == set_text(s5, shape, 1, text)
      s7 == set_font_size(s6, shape, 1, Pt(font_size))
      s8 == set_font_color(s7, shape, 1, text_color)
      s9 == set_font_bold(s8, shape, 1, "True")
      s10 == set_alignment(s9, shape, 1, "CENTER")
  IN  <<s1, s2, s3, s4, s5, s6, s7, s8, s9, s10,
       set_alignment(s10, shape, 1, "CENTER")>>

add_box(shapes, text, left, top, width, height, bg_color, text_color, font_size) ==
  Last(add_box_calls(shapes, text, left, top, width, height, bg_color, text_color, font_size))

(***************************************************************************)
(* Connectors (script 4).  The library stores a connector as a box plus    *)
(* two flip marks: the box spans the two end points, flipH (flipV) tells   *)
(* that the line begins at the right (bottom) edge of the box.             *)
(***************************************************************************)
Min(a, b) == IF a <= b THEN a ELSE b

Abs(a) == IF a >= 0 THEN a ELSE 0 - a

\* the connector element of kind kind from (begin_x, begin_y) to (end_x, end_y)
NewConnector(id, kind, begin_x, begin_y, end_x, end_y) ==
  [id |-> id, type |-> "connector", kind |-> kind,
   left |-> Min(begin_x, end_x), top |-> Min(begin_y, end_y),
   width |-> Abs(end_x - begin_x), height |-> Abs(end_y - begin_y),
   flipH |-> begin_x > end_x, flipV |-> begin_y > end_y,
   fill |-> [type |-> "None", rgb |-> << >>],
   line |-> [fill |-> "None", rgb |-> << >>, width |-> 0],
   word_wrap |-> "None",
   paragraphs |-> << >>]

\* mutant of add_connector: the box of the two points without the flip marks
add_connector_unflipped(shapes, connector_type, begin_x, begin_y, end_x, end_y) ==
  Append(shapes,
         [NewConnector(Len(shapes) + 1, "STRAIGHT", begin_x, begin_y, end_x, end_y)
            EXCEPT !.flipH = FALSE, !.flipV = FALSE])

\* slide.shapes.add_connector(connector_type, begin_x, begin_y, end_x, end_y);
\* connector_type 1 is the straight connector
add_connector(shapes, connector_type, begin_x, begin_y, end_x, end_y) ==
  Append(shapes,
         NewConnector(Len(shapes) + 1,
                      IF connector_type = 1 THEN "STRAIGHT" ELSE "OTHER",
                      begin_x, begin_y, end_x, end_y))

\* connector.line.width = width
set_line_width(shapes, sp, width) == [shapes EXCEPT ![sp].line.width = width]

\* connector.begin_x, begin_y, end_x, end_y: the end points read back
begin_x(e) == IF e.flipH THEN e.left + e.width ELSE e.left
begin_y(e) == IF e.flipV THEN e.top + e.height ELSE e.top
end_x(e) == IF e.flipH THEN e.left ELSE e.left + e.width
end_y(e) == IF e.flipV THEN e.top ELSE e.top + e.height

\* script 4: a straight connector, 2 pt wide, in the given colour
add_arrow(shapes, start_left, start_top, end_left, end_top, color) ==
  LET connector == Len(shapes) + 1
      s1 == add_connector(shapes, 1, start_left, start_top, end_left, end_top)
      s2 == set_line_color(s1, connector, color)
  IN  set_line_width(s2, connector, Pt(2))

(***************************************************************************)
(* The statements each script executes.  Three characters of the scripts'  *)
(* texts are outside what a TLA+ string can hold and are written with a    *)
(* stand-in of the same length: U+274C (cross mark, script 4) as "×",      *)
(* U+2713 (check mark, script 4) as "○", and the backquote (script 2,      *)
(* line 233) as "ˋ".                                                       *)
(***************************************************************************)
Program1 ==
  <<[op |-> "slide_width", line |-> 17, value |-> Inches(13333)],
    [op |-> "slide_height", line |-> 18, value |-> Inches(7500)],
    [op |-> "add_dark_slide", line |-> 103],
    [op |-> "add_title", line |-> 104, text |-> "The Testing Gap", top |-> Inches(2800), font_size |-> 72, color |-> V1_WHITE],
    [op |-> "add_subtitle", line |-> 105, text |-> "Nobody Talks About", top |-> Inches(4200), font_size |-> 40, color |-> V1_GRAY],
    [op |-> "add_dark_slide", line |-> 110],
    [op |-> "add_title", line |-> 111, text |-> "Your server tests pass.", top |-> Inches(1500), font_size |-> 48, color |-> V1_WHITE],
    [op |-> "add_title", line |-> 112, text |-> "Your frontend tests pass.", top |-> Inches(2500), font_size |-> 48, color |-> V1_WHITE],
    [op |-> "add_title", line |-> 113, text |-> "CI is green.", top |-> Inches(3500), font_size |-> 48, color |-> V1_WHITE],
    [op |-> "add_title", line |-> 114, text |-> "You ship.", top |-> Inches(4500), font_size |-> 48, color |-> V1_GREEN],
    [op |-> "add_title", line |-> 115, text |-> "Users report a bug.", top |-> Inches(5500), font_size |-> 48, color |-> V1_RED],
    [op |-> "add_dark_slide", line |-> 120],
    [op |-> "add_title", line |-> 121, text |-> "What went wrong?", top |-> Inches(3000), font_size |-> 64, color |-> V1_WHITE],
    [op |-> "add_dark_slide", line |-> 126],
    [op |-> "add_title", line |-> 127, text |-> "You tested both sides separately.", top |-> Inches(2500), font_size |-> 44, color |-> V1_WHITE],
    [op |-> "add_title", line |-> 128, text |-> "You never proved they work together.", top |-> Inches(4000), font_size |-> 44, color |-> V1_YELLOW],
    [op |-> "add_dark_slide", line |-> 133],
    [op |-> "add_title", line |-> 134, text |-> "The Server Test", top |-> Inches(500), font_size |-> 36, color |-> V1_GRAY],
    [op |-> "add_code_block", line |-> 146, code |-> "it('returns premium pricing for pro users', async () => {\n  vi.mock('./session', () => ({\n    getSession: () => ({ userId: '123', tier: 'pro' })\n  }));\n\n  const response = await request(app).get('/api/pricing');\n\n  expect(response.body.discount).toBe(20);\n});", left |-> Inches(1500), top |-> Inches(1500), width |-> Inches(10000), height |-> Inches(3500)],
    [op |-> "add_title", line |-> 147, text |-> "Test passes.", top |-> Inches(5500), font_size |-> 36, color |-> V1_GREEN],
    [op |-> "add_dark_slide", line |-> 152],
    [op |-> "add_title", line |-> 153, text |-> "What did we prove?", top |-> Inches(1000), font_size |-> 40, color |-> V1_WHITE],
    [op |-> "add_bullet_point", line |-> 154, text |-> "IF session exists correctly...", left |-> Inches(2000), top |-> Inches(2200), color |-> V1_GRAY, icon |-> ""],
    [op |-> "add_bullet_point", line |-> 155, text |-> "AND code reads it correctly...", left |-> Inches(2000), top |-> Inches(3000), color |-> V1_GRAY, icon |-> ""],
    [op |-> "add_bullet_point", line |-> 156, text |-> "THEN we return the discount.", left |-> Inches(2000), top |-> Inches(3800), color |-> V1_GRAY, icon |-> ""],
    [op |-> "add_title", line |-> 157, text |-> "What we did NOT prove:", top |-> Inches(5000), font_size |-> 36, color |-> V1_RED],
    [op |-> "add_subtitle", line |-> 158, text |-> "That a real user actually sees it.", top |-> Inches(5800), font_size |-> 32, color |-> V1_WHITE],
    [op |-> "add_dark_slide", line |-> 163],
    [op |-> "add_title", line |-> 164, text |-> "The Frontend Test", top |-> Inches(500), font_size |-> 36, color |-> V1_GRAY],
    [op |-> "add_code_block", line |-> 172, code |-> "it('displays discount for premium users', () => {\n  render(<PricingPage pricing={{ discount: 20 }} />);\n\n  expect(screen.getByText('20% off')).toBeInTheDocument();\n});", left |-> Inches(2000), top |-> Inches(1800), width |-> Inches(9000), height |-> Inches(2500)],
    [op |-> "add_title", line |-> 173, text |-> "Test passes.", top |-> Inches(5000), font_size |-> 36, color |-> V1_GREEN],
    [op |-> "add_dark_slide", line |-> 178],
    [op |-> "add_title", line |-> 179, text |-> "We hardcoded the discount.", top |-> Inches(2500), font_size |-> 48, color |-> V1_WHITE],
    [op |-> "add_title", line |-> 180, text |-> "We assumed the server returns it.", top |-> Inches(3800), font_size |-> 40, color |-> V1_GRAY],
    [op |-> "add_title", line |-> 181, text |-> "What if our assumption is wrong?", top |-> Inches(5200), font_size |-> 40, color |-> V1_YELLOW],
    [op |-> "add_dark_slide", line |-> 186],
    [op |-> "add_title", line |-> 187, text |-> "THE GAP", top |-> Inches(500), font_size |-> 48, color |-> V1_WHITE],
    [op |-> "add_shape", line |-> 190, kind |-> "ROUNDED_RECTANGLE", left |-> Inches(500), top |-> Inches(1500), width |-> Inches(4000), height |-> Inches(4000)],
    [op |-> "fill.solid", line |-> 191],
    [op |-> "fill.fore_color.rgb", line |-> 192, value |-> RGBColor(127, 29, 29)],
    [op |-> "line.fill.background", line |-> 193],
    [op |-> "add_textbox", line |-> 195, left |-> Inches(700), top |-> Inches(1700), width |-> Inches(3600), height |-> Inches(3600)],
    [op |-> "word_wrap", line |-> 197, value |-> "True"],
    [op |-> "paragraphs[0]", line |-> 198],
    [op |-> "text", line |-> 199, value |-> "SERVER TESTS"],
    [op |-> "font.size", line |-> 200, value |-> 24],
    [op |-> "font.bold", line |-> 201, value |-> "True"],
    [op |-> "font.color.rgb", line |-> 202, value |-> V1_WHITE],
    [op |-> "alignment", line |-> 203, value |-> "CENTER"],
    [op |-> "add_paragraph", line |-> 204],
    [op |-> "text", line |-> 205, value |-> "\nsupertest / jest / vitest"],
    [op |-> "font.size", line |-> 206, value |-> 16],
    [op |-> "font.color.rgb", line |-> 207, value |-> V1_GRAY],
    [op |-> "alignment", line |-> 208, value |-> "CENTER"],
    [op |-> "add_paragraph", line |-> 209],
    [op |-> "text", line |-> 210, value |-> "\n\nAPI returns JSON"],
    [op |-> "font.size", line |-> 211, value |-> 18],
    [op |-> "font.color.rgb", line |-> 212, value |-> V1_WHITE],
    [op |-> "alignment", line |-> 213, value |-> "CENTER"],
    [op |-> "add_paragraph", line |-> 214],
    [op |-> "text", line |-> 215, value |-> "\nNo real browser"],
    [op |-> "font.size", line |-> 216, value |-> 18],
    [op |-> "font.color.rgb", line |-> 217, value |-> V1_RED],
    [op |-> "alignment", line |-> 218, value |-> "CENTER"],
    [op |-> "add_shape", line |-> 221, kind |-> "ROUNDED_RECTANGLE", left |-> Inches(8833), top |-> Inches(1500), width |-> Inches(4000), height |-> Inches(4000)],
    [op |-> "fill.solid", line |-> 222],
    [op |-> "fill.fore_color.rgb", line |-> 223, value |-> RGBColor(127, 29, 29)],
    [op |-> "line.fill.background", line |-> 224],
    [op |-> "add_textbox", line |-> 226, left |-> Inches(9033), top |-> Inches(1700), width |-> Inches(3600), height |-> Inches(3600)],
    [op |-> "word_wrap", line |-> 228, value |-> "True"],
    [op |-> "paragraphs[0]", line |-> 229],
    [op |-> "text", line |-> 230, value |-> "FRONTEND TESTS"],
    [op |-> "font.size", line |-> 231, value |-> 24],
    [op |-> "font.bold", line |-> 232, value |-> "True"],
    [op |-> "font.color.rgb", line |-> 233, value |-> V1_WHITE],
    [op |-> "alignment", line |-> 234, value |-> "CENTER"],
    [op |-> "add_paragraph", line |-> 235],
    [op |-> "text", line |-> 236, value |-> "\nRTL / jsdom"],
    [op |-> "font.size", line |-> 237, value |-> 16],
    [op |-> "font.color.rgb", line |-> 238, value |-> V1_GRAY],
    [op |-> "alignment", line |-> 239, value |-> "CENTER"],
    [op |-> "add_paragraph", line |-> 240],
    [op |-> "text", line |-> 241, value |-> "\n\nComponent renders"],
    [op |-> "font.size", line |-> 242, value |-> 18],
    [op |-> "font.color.rgb", line |-> 243, value |-> V1_WHITE],
    [op |-> "alignment", line |-> 244, value |-> "CENTER"],
    [op |-> "add_paragraph", line |-> 245],
    [op |-> "text", line |-> 246, value |-> "\nNo real server"],
    [op |-> "font.size", line |-> 247, value |-> 18],
    [op |-> "font.color.rgb", line |-> 248, value |-> V1_RED],
    [op |-> "alignment", line |-> 249, value |-> "CENTER"],
    [op |-> "add_shape", line |-> 252, kind |-> "ROUNDED_RECTANGLE", left |-> Inches(5000), top |-> Inches(2000), width |-> Inches(3333), height |-> Inches(3000)],
    [op |-> "fill.solid", line |-> 253],
    [op |-> "fill.fore_color.rgb", line |-> 254, value |-> RGBColor(120, 53, 15)],
    [op |-> "line.fill.background", line |-> 255],
    [op |-> "add_textbox", line |-> 257, left |-> Inches(5200), top |-> Inches(2200), width |-> Inches(2933), height |-> Inches(2600)],
    [op |-> "word_wrap", line |-> 259, value |-> "True"],
    [op |-> "paragraphs[0]", line |-> 260],
    [op |-> "text", line |-> 261, value |-> "THE GAP"],
    [op |-> "font.size", line |-> 262, value |-> 28],
    [op |-> "font.bold", line |-> 263, value |-> "True"],
    [op |-> "font.color.rgb", line |-> 264, value |-> V1_YELLOW],
    [op |-> "alignment", line |-> 265, value |-> "CENTER"],
    [op |-> "add_paragraph", line |-> 266],
    [op |-> "text", line |-> 267, value |-> "\nReal browser\n+ Real server\n+ Controlled APIs"],
    [op |-> "font.size", line |-> 268, value |-> 18],
    [op |-> "font.color.rgb", line |-> 269, value |-> V1_WHITE],
    [op |-> "alignment", line |-> 270, value |-> "CENTER"],
    [op |-> "add_title", line |-> 272, text |-> "That's where the bugs hide.", top |-> Inches(6000), font_size |-> 36, color |-> V1_YELLOW],
    [op |-> "add_dark_slide", line |-> 277],
    [op |-> "add_title", line |-> 278, text |-> "Why is this so hard?", top |-> Inches(800), font_size |-> 44, color |-> V1_WHITE],
    [op |-> "add_title", line |-> 279, text |-> "Server-side state builds up.", top |-> Inches(2200), font_size |-> 36, color |-> V1_WHITE],
    [op |-> "add_shape", line |-> 282, kind |-> "ROUNDED_RECTANGLE", left |-> Inches(1000), top |-> Inches(3200), width |-> Inches(11333), height |-> Inches(1200)],
    [op |-> "fill.solid", line |-> 283],
    [op |-> "fill.fore_color.rgb", line |-> 284, value |-> RGBColor(39, 39, 42)],
    [op |-> "line.fill.background", line |-> 285],
    [op |-> "add_textbox", line |-> 287, left |-> Inches(1200), top |-> Inches(3400), width |-> Inches(10933), height |-> Inches(800)],
    [op |-> "paragraphs[0]", line |-> 289],
    [op |-> "text", line |-> 290, value |-> "Login  session  Cart  Checkout  Payment"],
    [op |-> "font.size", line |-> 291, value |-> 28],
    [op |-> "font.color.rgb", line |-> 292, value |-> V1_WHITE],
    [op |-> "alignment", line |-> 293, value |-> "CENTER"],
    [op |-> "add_subtitle", line |-> 295, text |-> "Each step depends on the previous one.", top |-> Inches(5000), font_size |-> 28, color |-> V1_GRAY],
    [op |-> "add_subtitle", line |-> 296, text |-> "Order matters. State matters.", top |-> Inches(5700), font_size |-> 28, color |-> V1_WHITE],
    [op |-> "add_dark_slide", line |-> 301],
    [op |-> "add_title", line |-> 302, text |-> "Test: Payment declined for premium user", top |-> Inches(1000), font_size |-> 36, color |-> V1_WHITE],
    [op |-> "add_bullet_point", line |-> 303, text |-> "Real browser making real requests", left |-> Inches(1500), top |-> Inches(2200), color |-> V1_WHITE, icon |-> "1."],
    [op |-> "add_bullet_point", line |-> 304, text |-> "Real server executing your code", left |-> Inches(1500), top |-> Inches(3000), color |-> V1_WHITE, icon |-> "2."],
    [op |-> "add_bullet_point", line |-> 305, text |-> "Auth0 returning a premium user", left |-> Inches(1500), top |-> Inches(3800), color |-> V1_WHITE, icon |-> "3."],
    [op |-> "add_bullet_point", line |-> 306, text |-> "Stripe returning a declined payment", left |-> Inches(1500), top |-> Inches(4600), color |-> V1_WHITE, icon |-> "4."],
    [op |-> "add_title", line |-> 308, text |-> "You can't ask Stripe to decline for your test.", top |-> Inches(5800), font_size |-> 32, color |-> V1_RED],
    [op |-> "add_dark_slide", line |-> 313],
    [op |-> "add_title", line |-> 314, text |-> "The Testing Pyramid Has a Gap", top |-> Inches(500), font_size |-> 40, color |-> V1_WHITE],
    [op |-> "add_shape", line |-> 318, kind |-> "ISOSCELES_TRIANGLE", left |-> Inches(4500), top |-> Inches(1500), width |-> Inches(4333), height |-> Inches(1500)],
    [op |-> "fill.solid", line |-> 319],
    [op |-> "fill.fore_color.rgb", line |-> 320, value |-> RGBColor(30, 64, 175)],
    [op |-> "line.fill.background", line |-> 321],
    [op |-> "add_shape", line |-> 324, kind |-> "TRAPEZOID", left |-> Inches(3500), top |-> Inches(3000), width |-> Inches(6333), height |-> Inches(1500)],
    [op |-> "fill.solid", line |-> 325],
    [op |-> "fill.fore_color.rgb", line |-> 326, value |-> RGBColor(120, 53, 15)],
    [op |-> "line.fill.background", line |-> 327],
    [op |-> "add_shape", line |-> 330, kind |-> "TRAPEZOID", left |-> Inches(2500), top |-> Inches(4500), width |-> Inches(8333), height |-> Inches(1500)],
    [op |-> "fill.solid", line |-> 331],
    [op |-> "fill.fore_color.rgb", line |-> 332, value |-> RGBColor(22, 101, 52)],
    [op |-> "line.fill.background", line |-> 333],
    [op |-> "add_subtitle", line |-> 336, text |-> "E2E - Can't control APIs", top |-> Inches(1600), font_size |-> 20, color |-> V1_WHITE],
    [op |-> "add_subtitle", line |-> 337, text |-> "THE GAP", top |-> Inches(3300), font_size |-> 24, color |-> V1_YELLOW],
    [op |-> "add_subtitle", line |-> 338, text |-> "Unit - Can't prove integration", top |-> Inches(4800), font_size |-> 20, color |-> V1_WHITE],
    [op |-> "add_dark_slide", line |-> 343],
    [op |-> "add_title", line |-> 344, text |-> "What You Need", top |-> Inches(800), font_size |-> 48, color |-> V1_WHITE],
    [op |-> "add_shape", line |-> 353, kind |-> "ROUNDED_RECTANGLE", left |-> Inches(1200), top |-> Inches(2000), width |-> Inches(3500), height |-> Inches(3000)],
    [op |-> "fill.solid", line |-> 354],
    [op |-> "fill.fore_color.rgb", line |-> 355, value |-> RGBColor(30, 64, 175)],
    [op |-> "line.fill.background", line |-> 356],
    [op |-> "add_textbox", line |-> 358, left |-> Inches(1200) + Inches(200), top |-> Inches(2300), width |-> Inches(3500) - Inches(400), height |-> Inches(3000) - Inches(400)],
    [op |-> "word_wrap", line |-> 360, value |-> "True"],
    [op |-> "paragraphs[0]", line |-> 361],
    [op |-> "text", line |-> 362, value |-> "Real Browser"],
    [op |-> "font.size", line |-> 363, value |-> 28],
    [op |-> "font.bold", line |-> 364, value |-> "True"],
    [op |-> "font.color.rgb", line |-> 365, value |-> V1_WHITE],
    [op |-> "alignment", line |-> 366, value |-> "CENTER"],
    [op |-> "add_paragraph", line |-> 367],
    [op |-> "text", line |-> 368, value |-> "\nPlaywright"],
    [op |-> "font.size", line |-> 369, value |-> 20],
    [op |-> "font.color.rgb", line |-> 370, value |-> V1_GRAY],
    [op |-> "alignment", line |-> 371, value |-> "CENTER"],
    [op |-> "add_paragraph", line |-> 372],
    [op |-> "text", line |-> 373, value |-> "\nNot jsdom"],
    [op |-> "font.size", line |-> 374, value |-> 18],
    [op |-> "font.color.rgb", line |-> 375, value |-> V1_WHITE],
    [op |-> "alignment", line |-> 376, value |-> "CENTER"],
    [op |-> "add_shape", line |-> 379, kind |-> "ROUNDED_RECTANGLE", left |-> Inches(1200) + Inches(3500) + Inches(500), top |-> Inches(2000), width |-> Inches(3500), height |-> Inches(3000)],
    [op |-> "fill.solid", line |-> 380],
    [op |-> "fill.fore_color.rgb", line |-> 381, value |-> RGBColor(22, 101, 52)],
    [op |-> "line.fill.background", line |-> 382],
    [op |-> "add_textbox", line |-> 384, left |-> Inches(1200) + Inches(3500) + Inches(500) + Inches(200), top |-> Inches(2300), width |-> Inches(3500) - Inches(400), height |-> Inches(3000) - Inches(400)],
    [op |-> "word_wrap", line |-> 386, value |-> "True"],
    [op |-> "paragraphs[0]", line |-> 387],
    [op |-> "text", line |-> 388, value |-> "Real Server"],
    [op |-> "font.size", line |-> 389, value |-> 28],
    [op |-> "font.bold", line |-> 390, value |-> "True"],
    [op |-> "font.color.rgb", line |-> 391, value |-> V1_WHITE],
    [op |-> "alignment", line |-> 392, value |-> "CENTER"],
    [op |-> "add_paragraph", line |-> 393],
    [op |-> "text", line |-> 394, value |-> "\nYour actual app"],
    [op |-> "font.size", line |-> 395, value |-> 20],
    [op |-> "font.color.rgb", line |-> 396, value |-> V1_GRAY],
    [op |-> "alignment", line |-> 397, value |-> "CENTER"],
    [op |-> "add_paragraph", line |-> 398],
    [op |-> "text", line |-> 399, value |-> "\nCode executes"],
    [op |-> "font.size", line |-> 400, value |-> 18],
    [op |-> "font.color.rgb", line |-> 401, value |-> V1_WHITE],
    [op |-> "alignment", line |-> 402, value |-> "CENTER"],
    [op |-> "add_shape", line |-> 405, kind |-> "ROUNDED_RECTANGLE", left |-> Inches(1200) + (2 * (Inches(3500) + Inches(500))), top |-> Inches(2000), width |-> Inches(3500), height |-> Inches(3000)],
    [op |-> "fill.solid", line |-> 406],
    [op |-> "fill.fore_color.rgb", line |-> 407, value |-> RGBColor(120, 53, 15)],
    [op |-> "line.fill.background", line |-> 408],
    [op |-> "add_textbox", line |-> 410, left |-> Inches(1200) + (2 * (Inches(3500) + Inches(500))) + Inches(200), top |-> Inches(2300), width |-> Inches(3500) - Inches(400), height |-> Inches(3000) - Inches(400)],
    [op |-> "word_wrap", line |-> 412, value |-> "True"],
    [op |-> "paragraphs[0]", line |-> 413],
    [op |-> "text", line |-> 414, value |-> "Controlled APIs"],
    [op |-> "font.size", line |-> 415, value |-> 28],
    [op |-> "font.bold", line |-> 416, value |-> "True"],
    [op |-> "font.color.rgb", line |-> 417, value |-> V1_WHITE],
    [op |-> "alignment", line |-> 418, value |-> "CENTER"],
    [op |-> "add_paragraph", line |-> 419],
    [op |-> "text", line |-> 420, value |-> "\nYou decide responses"],
    [op |-> "font.size", line |-> 421, value |-> 20],
    [op |-> "font.color.rgb", line |-> 422, value |-> V1_GRAY],
    [op |-> "alignment", line |-> 423, value |-> "CENTER"],
    [op |-> "add_paragraph", line |-> 424],
    [op |-> "text", line |-> 425, value |-> "\nAuth0, Stripe, etc."],
    [op |-> "font.size", line |-> 426, value |-> 18],
    [op |-> "font.color.rgb", line |-> 427, value |-> V1_WHITE],
    [op |-> "alignment", line |-> 428, value |-> "CENTER"],
    [op |-> "add_title", line |-> 430, text |-> "Real browser. Real server. Controlled responses.", top |-> Inches(5500), font_size |-> 32, color |-> V1_YELLOW],
    [op |-> "add_dark_slide", line |-> 435],
    [op |-> "add_title", line |-> 436, text |-> "What if you could do this?", top |-> Inches(500), font_size |-> 40, color |-> V1_GRAY],
    [op |-> "add_code_block", line |-> 451, code |-> "test('premium user sees discount', async ({ page, switchScenario }) => {\n  await switchScenario('premiumUser');\n  await page.goto('/pricing');\n  await expect(page.getByText('20% off')).toBeVisible();\n});\n\ntest('payment declined', async ({ page, switchScenario }) => {\n  await switchScenario('paymentDeclined');\n  await page.goto('/checkout');\n  await page.click('Pay Now');\n  await expect(page.getByText('Card declined')).toBeVisible();\n});", left |-> Inches(1000), top |-> Inches(1500), width |-> Inches(11333), height |-> Inches(4500)],
    [op |-> "add_dark_slide", line |-> 456],
    [op |-> "add_title", line |-> 457, text |-> "No server restarts.", top |-> Inches(2000), font_size |-> 48, color |-> V1_GREEN],
    [op |-> "add_title", line |-> 458, text |-> "No config files to edit.", top |-> Inches(3200), font_size |-> 48, color |-> V1_GREEN],
    [op |-> "add_title", line |-> 459, text |-> "No juggling test accounts.", top |-> Inches(4400), font_size |-> 48, color |-> V1_GREEN],
    [op |-> "add_title", line |-> 460, text |-> "Tests run in parallel.", top |-> Inches(5600), font_size |-> 48, color |-> V1_GREEN],
    [op |-> "add_dark_slide", line |-> 465],
    [op |-> "add_title", line |-> 466, text |-> "Next:", top |-> Inches(2000), font_size |-> 36, color |-> V1_GRAY],
    [op |-> "add_title", line |-> 467, text |-> "A real payment app.", top |-> Inches(3000), font_size |-> 48, color |-> V1_WHITE],
    [op |-> "add_title", line |-> 468, text |-> "Real Auth0. Real Stripe.", top |-> Inches(4200), font_size |-> 40, color |-> V1_WHITE],
    [op |-> "add_title", line |-> 469, text |-> "Real problems.", top |-> Inches(5400), font_size |-> 40, color |-> V1_YELLOW],
    [op |-> "output_path", line |-> 474, value |-> "video-01-the-testing-gap.pptx"],
    [op |-> "save", line |-> 475],
    [op |-> "print", line |-> 476, prefix |-> "Presentation saved to: "]>>

Program2 ==
  <<[op |-> "slide_width", line |-> 17, value |-> Inches(13333)],
    [op |-> "slide_height", line |-> 18, value |-> Inches(7500)],
    [op |-> "add_dark_slide", line |-> 130],
    [op |-> "add_title", line |-> 131, text |-> "Meet PayFlow", top |-> Inches(2800), font_size |-> 72, color |-> V2_WHITE],
    [op |-> "add_subtitle", line |-> 132, text |-> "A Real Payment App", top |-> Inches(4200), font_size |-> 40, color |-> V2_GRAY],
    [op |-> "add_dark_slide", line |-> 137],
    [op |-> "add_title", line |-> 138, text |-> "Before we test...", top |-> Inches(2500), font_size |-> 48, color |-> V2_WHITE],
    [op |-> "add_title", line |-> 139, text |-> "Let's see what we're testing.", top |-> Inches(3800), font_size |-> 48, color |-> V2_YELLOW],
    [op |-> "add_dark_slide", line |-> 144],
    [op |-> "add_title", line |-> 145, text |-> "The Tech Stack", top |-> Inches(800), font_size |-> 44, color |-> V2_WHITE],
    [op |-> "add_bullet_point", line |-> 146, text |-> "Next.js 16 (App Router)", left |-> Inches(3000), top |-> Inches(2000), color |-> V2_WHITE, icon |-> ""],
    [op |-> "add_bullet_point", line |-> 147, text |-> "TypeScript", left |-> Inches(3000), top |-> Inches(2700), color |-> V2_WHITE, icon |-> ""],
    [op |-> "add_bullet_point", line |-> 148, text |-> "Tailwind CSS + shadcn/ui", left |-> Inches(3000), top |-> Inches(3400), color |-> V2_WHITE, icon |-> ""],
    [op |-> "add_bullet_point", line |-> 149, text |-> "Three external services", left |-> Inches(3000), top |-> 3749039, color |-> V2_YELLOW, icon |-> ""],
    [op |-> "add_subtitle", line |-> 150, text |-> "Nothing exotic. The kind of app you'd actually build.", top |-> Inches(5500), font_size |-> 28, color |-> V2_GRAY],
    [op |-> "add_dark_slide", line |-> 155],
    [op |-> "add_title", line |-> 156, text |-> "Three External Services", top |-> Inches(500), font_size |-> 44, color |-> V2_WHITE],
    [op |-> "add_service_box", line |-> 165, name |-> "Auth0", description |-> "Authentication\nUser Tiers\nReal SDK", color |-> V2_AUTH0_ORANGE, left |-> Inches(800), top |-> Inches(1800), width |-> Inches(3800), height |-> Inches(3000)],
    [op |-> "add_service_box", line |-> 169, name |-> "Inventory Service", description |-> "Promotional Offers\njson-server :3001\nNO test mode", color |-> V2_INVENTORY_GREEN, left |-> Inches(800) + Inches(3800) + Inches(400), top |-> Inches(1800), width |-> Inches(3800), height |-> Inches(3000)],
    [op |-> "add_service_box", line |-> 173, name |-> "Stripe", description |-> "Payments\nWebhooks\nReal SDK", color |-> V2_STRIPE_PURPLE, left |-> Inches(800) + (2 * (Inches(3800) + Inches(400))), top |-> Inches(1800), width |-> Inches(3800), height |-> Inches(3000)],
    [op |-> "add_subtitle", line |-> 176, text |-> "Real HTTP calls. Real latency. Real dependencies.", top |-> Inches(5500), font_size |-> 28, color |-> V2_YELLOW],
    [op |-> "add_dark_slide", line |-> 181],
    [op |-> "add_title", line |-> 182, text |-> "The Inventory Service", top |-> Inches(1000), font_size |-> 48, color |-> V2_WHITE],
    [op |-> "add_subtitle", line |-> 183, text |-> "An internal API we consume but don't own.", top |-> Inches(2200), font_size |-> 32, color |-> V2_GRAY],
    [op |-> "add_title", line |-> 184, text |-> "Unlike Stripe:", top |-> Inches(3500), font_size |-> 36, color |-> V2_WHITE],
    [op |-> "add_bullet_point", line |-> 185, text |-> "No test mode", left |-> Inches(2500), top |-> Inches(4300), color |-> V2_RED, icon |-> ""],
    [op |-> "add_bullet_point", line |-> 186, text |-> "No magic card numbers", left |-> Inches(2500), top |-> Inches(4900), color |-> V2_RED, icon |-> ""],
    [op |-> "add_bullet_point", line |-> 187, text |-> "No way to simulate errors", left |-> Inches(2500), top |-> Inches(5500), color |-> V2_RED, icon |-> ""],
    [op |-> "add_subtitle", line |-> 188, text |-> "This is your reality with internal microservices.", top |-> Inches(6300), font_size |-> 24, color |-> V2_GRAY],
    [op |-> "add_dark_slide", line |-> 193],
    [op |-> "add_title", line |-> 194, text |-> "Real Auth0 SDK", top |-> Inches(500), font_size |-> 36, color |-> V2_AUTH0_ORANGE],
    [op |-> "add_code_block", line |-> 204, code |-> "// src/lib/auth0.ts\nimport { Auth0Client } from '@auth0/nextjs-auth0/server';\n\nexport const auth0 = new Auth0Client();\n\n// Usage: await auth0.getSession()\n// Returns: { user: { email, tier, ... } }", left |-> Inches(1500), top |-> Inches(1800), width |-> Inches(10000), height |-> Inches(3000)],
    [op |-> "add_subtitle", line |-> 205, text |-> "When you log in, it hits Auth0's servers.", top |-> Inches(5500), font_size |-> 28, color |-> V2_WHITE],
    [op |-> "add_dark_slide", line |-> 210],
    [op |-> "add_title", line |-> 211, text |-> "Real Stripe SDK", top |-> Inches(500), font_size |-> 36, color |-> V2_STRIPE_PURPLE],
    [op |-> "add_code_block", line |-> 222, code |-> "// src/lib/stripe.ts\nimport Stripe from 'stripe';\n\nexport const getStripeServer = () => {\n  return new Stripe(process.env.STRIPE_SECRET_KEY!);\n};\n\n// Checkout sessions, webhooks - all real", left |-> Inches(1500), top |-> Inches(1800), width |-> Inches(10000), height |-> Inches(3000)],
    [op |-> "add_subtitle", line |-> 223, text |-> "Payments go through Stripe's servers.", top |-> Inches(5500), font_size |-> 28, color |-> V2_WHITE],
    [op |-> "add_dark_slide", line |-> 228],
    [op |-> "add_title", line |-> 229, text |-> "Inventory Service (json-server)", top |-> Inches(500), font_size |-> 36, color |-> V2_INVENTORY_GREEN],
    [op |-> "add_code_block", line |-> 240, code |-> "// Fetching offer availability\nconst response = await fetch(\n  ˋ${INVENTORY_SERVICE_URL}/inventory/${productId}ˋ\n);\nconst data = await response.json();\n// { id, productId, quantity, reserved }\n\n// Simulated with: npx json-server db.json --port 3001", left |-> Inches(1500), top |-> Inches(1800), width |-> Inches(10000), height |-> Inches(3200)],
    [op |-> "add_subtitle", line |-> 241, text |-> "Real HTTP calls to a real service.", top |-> Inches(5500), font_size |-> 28, color |-> V2_WHITE],
    [op |-> "add_dark_slide", line |-> 246],
    [op |-> "add_title", line |-> 247, text |-> "Three Terminals", top |-> Inches(800), font_size |-> 44, color |-> V2_WHITE],
    [op |-> "add_shape", line |-> 256, kind |-> "ROUNDED_RECTANGLE", left |-> Inches(800), top |-> Inches(2000), width |-> Inches(3800), height |-> Inches(2200)],
    [op |-> "fill.solid", line |-> 257],
    [op |-> "fill.fore_color.rgb", line |-> 258, value |-> RGBColor(39, 39, 42)],
    [op |-> "line.fill.background", line |-> 259],
    [op |-> "add_textbox", line |-> 261, left |-> Inches(800) + Inches(200), top |-> Inches(2200), width |-> Inches(3800) - Inches(400), height |-> Inches(1800)],
    [op |-> "paragraphs[0]", line |-> 263],
    [op |-> "text", line |-> 264, value |-> "Next.js"],
    [op |-> "font.size", line |-> 265, value |-> 20],
    [op |-> "font.bold", line |-> 266, value |-> "True"],
    [op |-> "font.color.rgb", line |-> 267, value |-> V2_WHITE],
    [op |-> "add_paragraph", line |-> 268],
    [op |-> "text", line |-> 269, value |-> "pnpm dev"],
    [op |-> "font.size", line |-> 270, value |-> 16],
    [op |-> "font.name", line |-> 271, value |-> "Menlo"],
    [op |-> "font.color.rgb", line |-> 272, value |-> V2_GREEN],
    [op |-> "add_paragraph", line |-> 273],
    [op |-> "text", line |-> 274, value |-> "localhost:3000"],
    [op |-> "font.size", line |-> 275, value |-> 14],
    [op |-> "font.color.rgb", line |-> 276, value |-> V2_GRAY],
    [op |-> "add_shape", line |-> 279, kind |-> "ROUNDED_RECTANGLE", left |-> Inches(800) + Inches(3800) + Inches(400), top |-> Inches(2000), width |-> Inches(3800), height |-> Inches(2200)],
    [op |-> "fill.solid", line |-> 280],
    [op |-> "fill.fore_color.rgb", line |-> 281, value |-> RGBColor(39, 39, 42)],
    [op |-> "line.fill.background", line |-> 282],
    [op |-> "add_textbox", line |-> 284, left |-> Inches(800) + Inches(3800) + Inches(400) + Inches(200), top |-> Inches(2200), width |-> Inches(3800) - Inches(400), height |-> Inches(1800)],
    [op |-> "paragraphs[0]", line |-> 286],
    [op |-> "text", line |-> 287, value |-> "Inventory Service"],
    [op |-> "font.size", line |-> 288, value |-> 20],
    [op |-> "font.bold", line |-> 289, value |-> "True"],
    [op |-> "font.color.rgb", line |-> 290, value |-> V2_WHITE],
    [op |-> "add_paragraph", line |-> 291],
    [op |-> "text", line |-> 292, value |-> "npm run inventory"],
    [op |-> "font.size", line |-> 293, value |-> 16],
    [op |-> "font.name", line |-> 294, value |-> "Menlo"],
    [op |-> "font.color.rgb", line |-> 295, value |-> V2_GREEN],
    [op |-> "add_paragraph", line |-> 296],
    [op |-> "text", line |-> 297, value |-> "localhost:3001"],
    [op |-> "font.size", line |-> 298, value |-> 14],
    [op |-> "font.color.rgb", line |-> 299, value |-> V2_GRAY],
    [op |-> "add_shape", line |-> 302, kind |-> "ROUNDED_RECTANGLE", left |-> Inches(800) + (2 * (Inches(3800) + Inches(400))), top |-> Inches(2000), width |-> Inches(3800), height |-> Inches(2200)],
    [op |-> "fill.solid", line |-> 303],
    [op |-> "fill.fore_color.rgb", line |-> 304, value |-> RGBColor(39, 39, 42)],
    [op |-> "line.fill.background", line |-> 305],
    [op |-> "add_textbox", line |-> 307, left |-> Inches(800) + (2 * (Inches(3800) + Inches(400))) + Inches(200), top |-> Inches(2200), width |-> Inches(3800) - Inches(400), height |-> Inches(1800)],
    [op |-> "paragraphs[0]", line |-> 309],
    [op |-> "text", line |-> 310, value |-> "Stripe CLI"],
    [op |-> "font.size", line |-> 311, value |-> 20],
    [op |-> "font.bold", line |-> 312, value |-> "True"],
    [op |-> "font.color.rgb", line |-> 313, value |-> V2_WHITE],
    [op |-> "add_paragraph", line |-> 314],
    [op |-> "text", line |-> 315, value |-> "stripe listen ..."],
    [op |-> "font.size", line |-> 316, value |-> 16],
    [op |-> "font.name", line |-> 317, value |-> "Menlo"],
    [op |-> "font.color.rgb", line |-> 318, value |-> V2_GREEN],
    [op |-> "add_paragraph", line |-> 319],
    [op |-> "text", line |-> 320, value |-> "webhooks"],
    [op |-> "font.size", line |-> 321, value |-> 14],
    [op |-> "font.color.rgb", line |-> 322, value |-> V2_GRAY],
    [op |-> "add_subtitle", line |-> 324, text |-> "Real services. Real HTTP calls.", top |-> Inches(5000), font_size |-> 28, color |-> V2_YELLOW],
    [op |-> "add_dark_slide", line |-> 329],
    [op |-> "add_title", line |-> 330, text |-> "The Happy Path", top |-> Inches(600), font_size |-> 44, color |-> V2_WHITE],
    [op |-> "add_bullet_point", line |-> 331, text |-> "Sign In  Auth0 Universal Login", left |-> Inches(1500), top |-> Inches(1600), color |-> V2_WHITE, icon |-> "1."],
    [op |-> "add_bullet_point", line |-> 332, text |-> "Tier badge appears (Pro = 20% discount)", left |-> Inches(1500), top |-> Inches(2300), color |-> V2_WHITE, icon |-> "2."],
    [op |-> "add_bullet_point", line |-> 333, text |-> "Offer badges from Inventory Service", left |-> Inches(1500), top |-> Inches(3000), color |-> V2_WHITE, icon |-> "3."],
    [op |-> "add_bullet_point", line |-> 334, text |-> "Add to cart (see json-server logs)", left |-> Inches(1500), top |-> Inches(3700), color |-> V2_WHITE, icon |-> "4."],
    [op |-> "add_bullet_point", line |-> 335, text |-> "Checkout  Stripe (test card: 4242...)", left |-> Inches(1500), top |-> Inches(4400), color |-> V2_WHITE, icon |-> "5."],
    [op |-> "add_bullet_point", line |-> 336, text |-> "Webhook arrives (see Stripe CLI)", left |-> Inches(1500), top |-> Inches(5100), color |-> V2_WHITE, icon |-> "6."],
    [op |-> "add_bullet_point", line |-> 337, text |-> "Order appears in history", left |-> Inches(1500), top |-> Inches(5800), color |-> V2_WHITE, icon |-> "7."],
    [op |-> "add_title", line |-> 339, text |-> "This works great.", top |-> Inches(6500), font_size |-> 32, color |-> V2_GREEN],
    [op |-> "add_dark_slide", line |-> 344],
    [op |-> "add_title", line |-> 345, text |-> "How Hard Is This To Test?", top |-> Inches(3000), font_size |-> 56, color |-> V2_WHITE],
    [op |-> "add_dark_slide", line |-> 350],
    [op |-> "add_title", line |-> 351, text |-> "The Easy Stuff", top |-> Inches(500), font_size |-> 40, color |-> V2_GREEN],
    [op |-> "add_bullet_point", line |-> 358, text |-> "Happy path", left |-> Inches(1000), top |-> Inches(2000), color |-> V2_WHITE, icon |-> ""],
    [op |-> "add_subtitle", line |-> 359, text |-> "Just run the app", top |-> Inches(2000), font_size |-> 20, color |-> V2_GREEN],
    [op |-> "add_subtitle", line |-> 361, text |-> "Only ONE scenario is truly easy.", top |-> Inches(5500), font_size |-> 32, color |-> V2_YELLOW],
    [op |-> "add_dark_slide", line |-> 366],
    [op |-> "add_title", line |-> 367, text |-> "The Annoying Stuff", top |-> Inches(500), font_size |-> 40, color |-> V2_YELLOW],
    [op |-> "add_bullet_point", line |-> 369, text |-> "Premium user discount", left |-> Inches(1000), top |-> Inches(1800), color |-> V2_WHITE, icon |-> ""],
    [op |-> "add_subtitle", line |-> 370, text |-> "Need a Pro account in Auth0", top |-> Inches(2300), font_size |-> 18, color |-> V2_YELLOW],
    [op |-> "add_bullet_point", line |-> 372, text |-> "Free user pricing", left |-> Inches(1000), top |-> Inches(3000), color |-> V2_WHITE, icon |-> ""],
    [op |-> "add_subtitle", line |-> 373, text |-> "Need ANOTHER Auth0 account", top |-> Inches(3500), font_size |-> 18, color |-> V2_YELLOW],
    [op |-> "add_bullet_point", line |-> 375, text |-> "Payment declined", left |-> Inches(1000), top |-> Inches(4200), color |-> V2_WHITE, icon |-> ""],
    [op |-> "add_subtitle", line |-> 376, text |-> "Stripe test card works (4000 0000 0000 0002)", top |-> Inches(4700), font_size |-> 18, color |-> V2_YELLOW],
    [op |-> "add_subtitle", line |-> 378, text |-> "Possible, but requires manual setup.", top |-> Inches(6000), font_size |-> 28, color |-> V2_GRAY],
    [op |-> "add_dark_slide", line |-> 383],
    [op |-> "add_title", line |-> 384, text |-> "The Hard Stuff", top |-> Inches(500), font_size |-> 40, color |-> V2_RED],
    [op |-> "add_bullet_point", line |-> 386, text |-> "Offer ended (0 spots left)", left |-> Inches(1000), top |-> Inches(1600), color |-> V2_WHITE, icon |-> ""],
    [op |-> "add_subtitle", line |-> 387, text |-> "Edit db.json? Restart server?", top |-> Inches(2100), font_size |-> 18, color |-> V2_RED],
    [op |-> "add_bullet_point", line |-> 389, text |-> "Limited offer (3 spots)", left |-> Inches(1000), top |-> Inches(2800), color |-> V2_WHITE, icon |-> ""],
    [op |-> "add_subtitle", line |-> 390, text |-> "Edit db.json manually", top |-> Inches(3300), font_size |-> 18, color |-> V2_RED],
    [op |-> "add_bullet_point", line |-> 392, text |-> "Inventory service down", left |-> Inches(1000), top |-> Inches(4000), color |-> V2_WHITE, icon |-> ""],
    [op |-> "add_subtitle", line |-> 393, text |-> "Kill the server mid-test?", top |-> Inches(4500), font_size |-> 18, color |-> V2_RED],
    [op |-> "add_bullet_point", line |-> 395, text |-> "Auth0 error", left |-> Inches(1000), top |-> Inches(5200), color |-> V2_WHITE, icon |-> ""],
    [op |-> "add_subtitle", line |-> 396, text |-> "How do you make Auth0 fail on demand?", top |-> Inches(5700), font_size |-> 18, color |-> V2_RED],
    [op |-> "add_dark_slide", line |-> 401],
    [op |-> "add_title", line |-> 402, text |-> "The Impossible", top |-> Inches(500), font_size |-> 44, color |-> V2_RED],
    [op |-> "add_shape", line |-> 405, kind |-> "ROUNDED_RECTANGLE", left |-> Inches(1000), top |-> Inches(1800), width |-> Inches(11333), height |-> Inches(2500)],
    [op |-> "fill.solid", line |-> 406],
    [op |-> "fill.fore_color.rgb", line |-> 407, value |-> RGBColor(127, 29, 29)],
    [op |-> "line.fill.background", line |-> 408],
    [op |-> "add_textbox", line |-> 410, left |-> Inches(1300), top |-> Inches(2000), width |-> Inches(10733), height |-> Inches(2100)],
    [op |-> "word_wrap", line |-> 412, value |-> "True"],
    [op |-> "paragraphs[0]", line |-> 413],
    [op |-> "text", line |-> 414, value |-> "Offer ends during checkout"],
    [op |-> "font.size", line |-> 415, value |-> 36],
    [op |-> "font.bold", line |-> 416, value |-> "True"],
    [op |-> "font.color.rgb", line |-> 417, value |-> V2_WHITE],
    [op |-> "alignment", line |-> 418, value |-> "CENTER"],
    [op |-> "add_paragraph", line |-> 419],
    [op |-> "text", line |-> 420, value |-> "\nUser loads page  offer available\nUser clicks checkout  someone takes last spot\nUser clicks pay  ???"],
    [op |-> "font.size", line |-> 421, value |-> 24],
    [op |-> "font.color.rgb", line |-> 422, value |-> RGBColor(252, 165, 165)],
    [op |-> "alignment", line |-> 423, value |-> "CENTER"],
    [op |-> "add_subtitle", line |-> 425, text |-> "Edit db.json WHILE the test runs? Time it perfectly?", top |-> Inches(5000), font_size |-> 28, color |-> V2_GRAY],
    [op |-> "add_title", line |-> 426, text |-> "That's not testing. That's praying.", top |-> Inches(5800), font_size |-> 32, color |-> V2_YELLOW],
    [op |-> "add_dark_slide", line |-> 431],
    [op |-> "add_title", line |-> 432, text |-> "50 Tests in Parallel?", top |-> Inches(1000), font_size |-> 48, color |-> V2_WHITE],
    [op |-> "add_bullet_point", line |-> 434, text |-> "All tests hit the same Auth0", left |-> Inches(2000), top |-> Inches(2500), color |-> V2_WHITE, icon |-> ""],
    [op |-> "add_bullet_point", line |-> 435, text |-> "All tests hit the same json-server", left |-> Inches(2000), top |-> Inches(3300), color |-> V2_WHITE, icon |-> ""],
    [op |-> "add_bullet_point", line |-> 436, text |-> "All tests hit the same Stripe", left |-> Inches(2000), top |-> 3749039, color |-> V2_WHITE, icon |-> ""],
    [op |-> "add_title", line |-> 438, text |-> "Shared state = Test conflicts", top |-> Inches(5300), font_size |-> 40, color |-> V2_RED],
    [op |-> "add_dark_slide", line |-> 443],
    [op |-> "add_title", line |-> 444, text |-> "Summary", top |-> Inches(400), font_size |-> 40, color |-> V2_WHITE],
    [op |-> "add_bullet_point", line |-> 447, text |-> "Easy:  Happy path only", left |-> Inches(1000), top |-> Inches(1400), color |-> V2_GREEN, icon |-> ""],
    [op |-> "add_bullet_point", line |-> 448, text |-> "Annoying:  Different tiers, declined payments", left |-> Inches(1000), top |-> Inches(2100), color |-> V2_YELLOW, icon |-> ""],
    [op |-> "add_bullet_point", line |-> 449, text |-> "Hard:  Service errors, offer states", left |-> Inches(1000), top |-> Inches(2800), color |-> V2_RED, icon |-> ""],
    [op |-> "add_bullet_point", line |-> 450, text |-> "Impossible:  Sequences, parallel tests", left |-> Inches(1000), top |-> Inches(3500), color |-> V2_RED, icon |-> ""],
    [op |-> "add_shape", line |-> 453, kind |-> "ROUNDED_RECTANGLE", left |-> Inches(1000), top |-> Inches(4500), width |-> Inches(11333), height |-> Inches(1500)],
    [op |-> "fill.solid", line |-> 454],
    [op |-> "fill.fore_color.rgb", line |-> 455, value |-> RGBColor(120, 53, 15)],
    [op |-> "line.fill.background", line |-> 456],
    [op |-> "add_textbox", line |-> 458, left |-> Inches(1300), top |-> Inches(4700), width |-> Inches(10733), height |-> Inches(1100)],
    [op |-> "paragraphs[0]", line |-> 460],
    [op |-> "text", line |-> 461, value |-> "The more realistic your test, the harder it is to set up."],
    [op |-> "font.size", line |-> 462, value |-> 28],
    [op |-> "font.color.rgb", line |-> 463, value |-> V2_WHITE],
    [op |-> "alignment", line |-> 464, value |-> "CENTER"],
    [op |-> "add_paragraph", line |-> 465],
    [op |-> "text", line |-> 466, value |-> "Edge cases are nearly impossible."],
    [op |-> "font.size", line |-> 467, value |-> 24],
    [op |-> "font.color.rgb", line |-> 468, value |-> V2_YELLOW],
    [op |-> "alignment", line |-> 469, value |-> "CENTER"],
    [op |-> "add_dark_slide", line |-> 474],
    [op |-> "add_title", line |-> 475, text |-> "What if...", top |-> Inches(2000), font_size |-> 48, color |-> V2_GRAY],
    [op |-> "add_title", line |-> 476, text |-> "Same app. Same code.", top |-> Inches(3200), font_size |-> 44, color |-> V2_WHITE],
    [op |-> "add_title", line |-> 477, text |-> "But YOU control the responses.", top |-> Inches(4400), font_size |-> 44, color |-> V2_YELLOW],
    [op |-> "add_dark_slide", line |-> 482],
    [op |-> "add_title", line |-> 483, text |-> "Scenarist", top |-> Inches(800), font_size |-> 48, color |-> V2_YELLOW],
    [op |-> "add_subtitle", line |-> 486, text |-> "json-server is still running...", top |-> Inches(2000), font_size |-> 28, color |-> V2_WHITE],
    [op |-> "add_subtitle", line |-> 487, text |-> "But Scenarist intercepts BEFORE requests reach it.", top |-> Inches(2800), font_size |-> 28, color |-> V2_GREEN],
    [op |-> "add_shape", line |-> 490, kind |-> "ROUNDED_RECTANGLE", left |-> Inches(2000), top |-> Inches(4000), width |-> Inches(9333), height |-> Inches(1800)],
    [op |-> "fill.solid", line |-> 491],
    [op |-> "fill.fore_color.rgb", line |-> 492, value |-> RGBColor(39, 39, 42)],
    [op |-> "line.fill.background", line |-> 493],
    [op |-> "add_textbox", line |-> 495, left |-> Inches(2200), top |-> Inches(4200), width |-> Inches(8933), height |-> Inches(1400)],
    [op |-> "paragraphs[0]", line |-> 497],
    [op |-> "text", line |-> 498, value |-> "Your App  Scenarist  (intercepted)  json-server"],
    [op |-> "font.size", line |-> 499, value |-> 24],
    [op |-> "font.color.rgb", line |-> 500, value |-> V2_WHITE],
    [op |-> "alignment", line |-> 501, value |-> "CENTER"],
    [op |-> "add_paragraph", line |-> 502],
    [op |-> "text", line |-> 503, value |-> "                                           never reached"],
    [op |-> "font.size", line |-> 504, value |-> 18],
    [op |-> "font.color.rgb", line |-> 505, value |-> V2_GRAY],
    [op |-> "alignment", line |-> 506, value |-> "CENTER"],
    [op |-> "add_dark_slide", line |-> 511],
    [op |-> "add_title", line |-> 512, text |-> "Next:", top |-> Inches(2000), font_size |-> 36, color |-> V2_GRAY],
    [op |-> "add_title", line |-> 513, text |-> "One Server, Unlimited Scenarios", top |-> Inches(3000), font_size |-> 48, color |-> V2_WHITE],
    [op |-> "add_title", line |-> 514, text |-> "How Scenarist actually works.", top |-> Inches(4500), font_size |-> 36, color |-> V2_WHITE],
    [op |-> "output_path", line |-> 519, value |-> "video-02-meet-payflow.pptx"],
    [op |-> "save", line |-> 520],
    [op |-> "print", line |-> 521, prefix |-> "Presentation saved to: "]>>

Program3 ==
  <<[op |-> "slide_width", line |-> 122, value |-> Inches(13333)],
    [op |-> "slide_height", line |-> 123, value |-> Inches(7500)],
    [op |-> "add_dark_slide", line |-> 128],
    [op |-> "add_title", line |-> 129, text |-> "One Server, Unlimited Scenarios", top |-> Inches(2500), font_size |-> 54, color |-> V3_WHITE],
    [op |-> "add_subtitle", line |-> 130, text |-> "Video 3: How Scenarist Makes Testing Easy", top |-> Inches(3500), font_size |-> 32, color |-> V3_ZINC_400],
    [op |-> "add_dark_slide", line |-> 135],
    [op |-> "add_title", line |-> 136, text |-> "Remember the Testing Problem Table?", top |-> Inches(500), font_size |-> 44, color |-> V3_WHITE],
    [op |-> "add_bullet_point", line |-> 139, text |-> "Happy path", left |-> Inches(1500), top |-> Inches(1800), color |-> V3_GREEN, icon |-> "Easy:"],
    [op |-> "add_bullet_point", line |-> 140, text |-> "User tiers (pro/free)", left |-> Inches(1500), top |-> Inches(2400), color |-> V3_YELLOW, icon |-> "Annoying:"],
    [op |-> "add_bullet_point", line |-> 141, text |-> "Offer states, service errors", left |-> Inches(1500), top |-> Inches(3000), color |-> V3_YELLOW, icon |-> "Hard:"],
    [op |-> "add_bullet_point", line |-> 142, text |-> "Offer ends during checkout", left |-> Inches(1500), top |-> Inches(3600), color |-> V3_RED, icon |-> "Impossible:"],
    [op |-> "add_bullet_point", line |-> 143, text |-> "50 parallel tests", left |-> Inches(1500), top |-> Inches(4200), color |-> V3_RED, icon |-> "Impossible:"],
    [op |-> "add_subtitle", line |-> 145, text |-> "Let's fix that.", top |-> Inches(5500), font_size |-> 36, color |-> V3_YELLOW],
    [op |-> "add_dark_slide", line |-> 150],
    [op |-> "add_title", line |-> 151, text |-> "PayFlow's Architecture", top |-> Inches(400), font_size |-> 44, color |-> V3_WHITE],
    [op |-> "add_subtitle", line |-> 152, text |-> "Three backend services - all server-side HTTP calls", top |-> Inches(1000), font_size |-> 24, color |-> V3_ZINC_400],
    [op |-> "add_shape", line |-> 155, kind |-> "ROUNDED_RECTANGLE", left |-> Inches(1000), top |-> Inches(2500), width |-> Inches(2000), height |-> Inches(1000)],
    [op |-> "fill.solid", line |-> 156],
    [op |-> "fill.fore_color.rgb", line |-> 157, value |-> V3_ZINC_400],
    [op |-> "line.fill.background", line |-> 158],
    [op |-> "text", line |-> 160, on |-> "tf.paragraphs[0]", value |-> "Browser"],
    [op |-> "font.size", line |-> 161, on |-> "tf.paragraphs[0]", value |-> 18],
    [op |-> "font.color.rgb", line |-> 162, on |-> "tf.paragraphs[0]", value |-> V3_DARK_BG],
    [op |-> "font.bold", line |-> 163, on |-> "tf.paragraphs[0]", value |-> "True"],
    [op |-> "alignment", line |-> 164, on |-> "tf.paragraphs[0]", value |-> "CENTER"],
    [op |-> "add_shape", line |-> 167, kind |-> "ROUNDED_RECTANGLE", left |-> Inches(4500), top |-> Inches(2500), width |-> Inches(2500), height |-> Inches(1000)],
    [op |-> "fill.solid", line |-> 168],
    [op |-> "fill.fore_color.rgb", line |-> 169, value |-> V3_WHITE],
    [op |-> "line.fill.background", line |-> 170],
    [op |-> "text", line |-> 172, on |-> "tf.paragraphs[0]", value |-> "Next.js Server"],
    [op |-> "font.size", line |-> 173, on |-> "tf.paragraphs[0]", value |-> 18],
    [op |-> "font.color.rgb", line |-> 174, on |-> "tf.paragraphs[0]", value |-> V3_DARK_BG],
    [op |-> "font.bold", line |-> 175, on |-> "tf.paragraphs[0]", value |-> "True"],
    [op |-> "alignment", line |-> 176, on |-> "tf.paragraphs[0]", value |-> "CENTER"],
    [op |-> "add_shape", line |-> 186, kind |-> "ROUNDED_RECTANGLE", left |-> Inches(8500), top |-> Inches(4200), width |-> Inches(3500), height |-> Inches(700)],
    [op |-> "fill.solid", line |-> 187],
    [op |-> "fill.fore_color.rgb", line |-> 188, value |-> V3_USER_BLUE],
    [op |-> "line.fill.background", line |-> 189],
    [op |-> "text", line |-> 191, on |-> "tf.paragraphs[0]", value |-> "User Service"],
    [op |-> "font.size", line |-> 192, on |-> "tf.paragraphs[0]", value |-> 16],
    [op |-> "font.color.rgb", line |-> 193, on |-> "tf.paragraphs[0]", value |-> V3_WHITE],
    [op |-> "font.bold", line |-> 194, on |-> "tf.paragraphs[0]", value |-> "True"],
    [op |-> "alignment", line |-> 195, on |-> "tf.paragraphs[0]", value |-> "CENTER"],
    [op |-> "add_shape", line |-> 186, kind |-> "ROUNDED_RECTANGLE", left |-> Inches(8500), top |-> Inches(5000), width |-> Inches(3500), height |-> Inches(700)],
    [op |-> "fill.solid", line |-> 187],
    [op |-> "fill.fore_color.rgb", line |-> 188, value |-> V3_INVENTORY_GREEN],
    [op |-> "line.fill.background", line |-> 189],
    [op |-> "text", line |-> 191, on |-> "tf.paragraphs[0]", value |-> "Inventory Service"],
    [op |-> "font.size", line |-> 192, on |-> "tf.paragraphs[0]", value |-> 16],
    [op |-> "font.color.rgb", line |-> 193, on |-> "tf.paragraphs[0]", value |-> V3_WHITE],
    [op |-> "font.bold", line |-> 194, on |-> "tf.paragraphs[0]", value |-> "True"],
    [op |-> "alignment", line |-> 195, on |-> "tf.paragraphs[0]", value |-> "CENTER"],
    [op |-> "add_shape", line |-> 186, kind |-> "ROUNDED_RECTANGLE", left |-> Inches(8500), top |-> Inches(5800), width |-> Inches(3500), height |-> Inches(700)],
    [op |-> "fill.solid", line |-> 187],
    [op |-> "fill.fore_color.rgb", line |-> 188, value |-> V3_SHIPPING_PURPLE],
    [op |-> "line.fill.background", line |-> 189],
    [op |-> "text", line |-> 191, on |-> "tf.paragraphs[0]", value |-> "Shipping Service"],
    [op |-> "font.size", line |-> 192, on |-> "tf.paragraphs[0]", value |-> 16],
    [op |-> "font.color.rgb", line |-> 193, on |-> "tf.paragraphs[0]", value |-> V3_WHITE],
    [op |-> "font.bold", line |-> 194, on |-> "tf.paragraphs[0]", value |-> "True"],
    [op |-> "alignment", line |-> 195, on |-> "tf.paragraphs[0]", value |-> "CENTER"],
    [op |-> "add_subtitle", line |-> 198, text |-> "Your browser never talks to these services directly.", top |-> Inches(6500), font_size |-> 24, color |-> V3_YELLOW],
    [op |-> "add_dark_slide", line |-> 203],
    [op |-> "add_title", line |-> 204, text |-> "The Core Insight", top |-> Inches(2000), font_size |-> 54, color |-> V3_WHITE],
    [op |-> "add_subtitle", line |-> 205, text |-> "If we can intercept those server-side calls,", top |-> Inches(3200), font_size |-> 32, color |-> V3_WHITE],
    [op |-> "add_subtitle", line |-> 206, text |-> "we can return whatever we want.", top |-> Inches(4000), font_size |-> 32, color |-> V3_YELLOW],
    [op |-> "add_dark_slide", line |-> 211],
    [op |-> "add_title", line |-> 212, text |-> "Control Every Response", top |-> Inches(800), font_size |-> 44, color |-> V3_WHITE],
    [op |-> "add_bullet_point", line |-> 214, text |-> "Pro user? Return { tier: 'pro' }", left |-> Inches(2000), top |-> Inches(2200), color |-> V3_GREEN, icon |-> ""],
    [op |-> "add_bullet_point", line |-> 215, text |-> "Free user? Return { tier: 'free' }", left |-> Inches(2000), top |-> Inches(3000), color |-> V3_GREEN, icon |-> ""],
    [op |-> "add_bullet_point", line |-> 216, text |-> "Offer ended? Return { quantity: 0 }", left |-> Inches(2000), top |-> Inches(3800), color |-> V3_GREEN, icon |-> ""],
    [op |-> "add_bullet_point", line |-> 217, text |-> "Shipping down? Return 500 error", left |-> Inches(2000), top |-> Inches(4600), color |-> V3_GREEN, icon |-> ""],
    [op |-> "add_subtitle", line |-> 219, text |-> "No database changes. No test accounts. Just responses.", top |-> Inches(5800), font_size |-> 28, color |-> V3_YELLOW],
    [op |-> "add_dark_slide", line |-> 224],
    [op |-> "add_title", line |-> 225, text |-> "Scenarist", top |-> Inches(1500), font_size |-> 64, color |-> V3_YELLOW],
    [op |-> "add_subtitle", line |-> 226, text |-> "Intercepts server-side HTTP calls.", top |-> Inches(3000), font_size |-> 32, color |-> V3_WHITE],
    [op |-> "add_subtitle", line |-> 227, text |-> "Returns whatever you specify.", top |-> Inches(4000), font_size |-> 32, color |-> V3_GREEN],
    [op |-> "add_dark_slide", line |-> 232],
    [op |-> "add_title", line |-> 233, text |-> "Framework-Agnostic Architecture", top |-> Inches(400), font_size |-> 40, color |-> V3_WHITE],
    [op |-> "add_shape", line |-> 241, kind |-> "ROUNDED_RECTANGLE", left |-> Inches(4166), top |-> Inches(1300), width |-> Inches(5000), height |-> Inches(1000)],
    [op |-> "fill.solid", line |-> 242],
    [op |-> "fill.fore_color.rgb", line |-> 243, value |-> V3_BLUE],
    [op |-> "line.fill.background", line |-> 244],
    [op |-> "paragraphs[0]", line |-> 246],
    [op |-> "text", line |-> 247, value |-> "Your Test"],
    [op |-> "font.size", line |-> 248, value |-> 20],
    [op |-> "font.color.rgb", line |-> 249, value |-> V3_WHITE],
    [op |-> "font.bold", line |-> 250, value |-> "True"],
    [op |-> "alignment", line |-> 251, value |-> "CENTER"],
    [op |-> "add_subtitle", line |-> 254, text |-> "↓", top |-> Inches(2200), font_size |-> 36, color |-> V3_WHITE],
    [op |-> "add_shape", line |-> 257, kind |-> "ROUNDED_RECTANGLE", left |-> Inches(4166), top |-> Inches(2800), width |-> Inches(5000), height |-> Inches(1000)],
    [op |-> "fill.solid", line |-> 258],
    [op |-> "fill.fore_color.rgb", line |-> 259, value |-> V3_YELLOW],
    [op |-> "line.fill.background", line |-> 260],
    [op |-> "paragraphs[0]", line |-> 262],
    [op |-> "text", line |-> 263, value |-> "Scenarist Core"],
    [op |-> "font.size", line |-> 264, value |-> 20],
    [op |-> "font.color.rgb", line |-> 265, value |-> V3_DARK_BG],
    [op |-> "font.bold", line |-> 266, value |-> "True"],
    [op |-> "alignment", line |-> 267, value |-> "CENTER"],
    [op |-> "add_subtitle", line |-> 270, text |-> "↓", top |-> Inches(3700), font_size |-> 36, color |-> V3_WHITE],
    [op |-> "add_shape", line |-> 273, kind |-> "ROUNDED_RECTANGLE", left |-> Inches(4166), top |-> Inches(4300), width |-> Inches(5000), height |-> Inches(1000)],
    [op |-> "fill.solid", line |-> 274],
    [op |-> "fill.fore_color.rgb", line |-> 275, value |-> V3_GREEN],
    [op |-> "line.fill.background", line |-> 276],
    [op |-> "paragraphs[0]", line |-> 278],
    [op |-> "text", line |-> 279, value |-> "Framework Adapter"],
    [op |-> "font.size", line |-> 280, value |-> 20],
    [op |-> "font.color.rgb", line |-> 281, value |-> V3_DARK_BG],
    [op |-> "font.bold", line |-> 282, value |-> "True"],
    [op |-> "alignment", line |-> 283, value |-> "CENTER"],
    [op |-> "add_subtitle", line |-> 286, text |-> "↓", top |-> Inches(5200), font_size |-> 36, color |-> V3_WHITE],
    [op |-> "add_shape", line |-> 289, kind |-> "ROUNDED_RECTANGLE", left |-> Inches(4166), top |-> Inches(5800), width |-> Inches(5000), height |-> Inches(1000)],
    [op |-> "fill.solid", line |-> 290],
    [op |-> "fill.fore_color.rgb", line |-> 291, value |-> RGBColor(168, 85, 247)],
    [op |-> "line.fill.background", line |-> 292],
    [op |-> "paragraphs[0]", line |-> 294],
    [op |-> "text", line |-> 295, value |-> "MSW (Interception)"],
    [op |-> "font.size", line |-> 296, value |-> 20],
    [op |-> "font.color.rgb", line |-> 297, value |-> V3_WHITE],
    [op |-> "font.bold", line |-> 298, value |-> "True"],
    [op |-> "alignment", line |-> 299, value |-> "CENTER"],
    [op |-> "add_bullet_point", line |-> 302, text |-> "← Framework-agnostic", left |-> Inches(9500), top |-> Inches(3000), color |-> V3_ZINC_400, icon |-> ""],
    [op |-> "add_bullet_point", line |-> 303, text |-> "← Express, Next.js, etc", left |-> Inches(9500), top |-> Inches(4500), color |-> V3_ZINC_400, icon |-> ""],
    [op |-> "add_dark_slide", line |-> 308],
    [op |-> "add_title", line |-> 309, text |-> "One Pattern, Any Framework", top |-> Inches(2500), font_size |-> 48, color |-> V3_WHITE],
    [op |-> "add_subtitle", line |-> 310, text |-> "Express today? Next.js tomorrow?", top |-> Inches(3800), font_size |-> 32, color |-> V3_WHITE],
    [op |-> "add_subtitle", line |-> 311, text |-> "Only the adapter changes.", top |-> Inches(4600), font_size |-> 32, color |-> V3_YELLOW],
    [op |-> "add_dark_slide", line |-> 316],
    [op |-> "add_title", line |-> 317, text |-> "Live Demo", top |-> Inches(500), font_size |-> 54, color |-> V3_YELLOW],
    [op |-> "add_subtitle", line |-> 320, text |-> "Two terminals:", top |-> Inches(1800), font_size |-> 28, color |-> V3_WHITE],
    [op |-> "add_shape", line |-> 323, kind |-> "ROUNDED_RECTANGLE", left |-> Inches(2000), top |-> Inches(2800), width |-> Inches(4000), height |-> Inches(2500)],
    [op |-> "fill.solid", line |-> 324],
    [op |-> "fill.fore_color.rgb", line |-> 325, value |-> RGBColor(39, 39, 42)],
    [op |-> "line.color.rgb", line |-> 326, value |-> V3_ZINC_400],
    [op |-> "text", line |-> 328, on |-> "tf.paragraphs[0]", value |-> "Terminal 1"],
    [op |-> "font.size", line |-> 329, on |-> "tf.paragraphs[0]", value |-> 16],
    [op |-> "font.color.rgb", line |-> 330, on |-> "tf.paragraphs[0]", value |-> V3_ZINC_400],
    [op |-> "alignment", line |-> 331, on |-> "tf.paragraphs[0]", value |-> "CENTER"],
    [op |-> "add_paragraph", line |-> 332],
    [op |-> "text", line |-> 333, value |-> "\n$ pnpm dev"],
    [op |-> "font.size", line |-> 334, value |-> 14],
    [op |-> "font.color.rgb", line |-> 335, value |-> V3_GREEN],
    [op |-> "font.name", line |-> 336, value |-> "Menlo"],
    [op |-> "add_paragraph", line |-> 337],
    [op |-> "text", line |-> 338, value |-> "Next.js running..."],
    [op |-> "font.size", line |-> 339, value |-> 14],
    [op |-> "font.color.rgb", line |-> 340, value |-> V3_WHITE],
    [op |-> "font.name", line |-> 341, value |-> "Menlo"],
    [op |-> "add_shape", line |-> 343, kind |-> "ROUNDED_RECTANGLE", left |-> Inches(7000), top |-> Inches(2800), width |-> Inches(4000), height |-> Inches(2500)],
    [op |-> "fill.solid", line |-> 344],
    [op |-> "fill.fore_color.rgb", line |-> 345, value |-> RGBColor(39, 39, 42)],
    [op |-> "line.color.rgb", line |-> 346, value |-> V3_ZINC_400],
    [op |-> "text", line |-> 348, on |-> "tf.paragraphs[0]", value |-> "Terminal 2"],
    [op |-> "font.size", line |-> 349, on |-> "tf.paragraphs[0]", value |-> 16],
    [op |-> "font.color.rgb", line |-> 350, on |-> "tf.paragraphs[0]", value |-> V3_ZINC_400],
    [op |-> "alignment", line |-> 351, on |-> "tf.paragraphs[0]", value |-> "CENTER"],
    [op |-> "add_paragraph", line |-> 352],
    [op |-> "text", line |-> 353, value |-> "\n$ pnpm inventory"],
    [op |-> "font.size", line |-> 354, value |-> 14],
    [op |-> "font.color.rgb", line |-> 355, value |-> V3_GREEN],
    [op |-> "font.name", line |-> 356, value |-> "Menlo"],
    [op |-> "add_paragraph", line |-> 357],
    [op |-> "text", line |-> 358, value |-> "Backend services..."],
    [op |-> "font.size", line |-> 359, value |-> 14],
    [op |-> "font.color.rgb", line |-> 360, value |-> V3_WHITE],
    [op |-> "font.name", line |-> 361, value |-> "Menlo"],
    [op |-> "add_subtitle", line |-> 363, text |-> "Watch Terminal 2 - it should stay silent.", top |-> Inches(6000), font_size |-> 24, color |-> V3_YELLOW],
    [op |-> "add_dark_slide", line |-> 368],
    [op |-> "add_title", line |-> 369, text |-> "Test 1: Pro User Discount", top |-> Inches(500), font_size |-> 40, color |-> V3_WHITE],
    [op |-> "add_code_block", line |-> 376, code |-> "test(\"pro user sees 20% discount\", async ({ page, switchScenario }) => {\n  await switchScenario(\"default\");\n  await page.goto(\"/products/1\");\n  await expect(page.getByText(\"20% off\")).toBeVisible();\n});", left |-> Inches(1000), top |-> Inches(1800), width |-> Inches(11000), height |-> Inches(2500), font_size |-> 18],
    [op |-> "add_subtitle", line |-> 378, text |-> "User Service returns { tier: 'pro' }", top |-> Inches(5000), font_size |-> 28, color |-> V3_GREEN],
    [op |-> "add_subtitle", line |-> 379, text |-> "Discount applied.", top |-> Inches(5800), font_size |-> 28, color |-> V3_WHITE],
    [op |-> "add_dark_slide", line |-> 384],
    [op |-> "add_title", line |-> 385, text |-> "Test 2: Free User Full Price", top |-> Inches(500), font_size |-> 40, color |-> V3_WHITE],
    [op |-> "add_code_block", line |-> 392, code |-> "test(\"free user sees full price\", async ({ page, switchScenario }) => {\n  await switchScenario(\"freeUser\");\n  await page.goto(\"/products/1\");\n  await expect(page.getByText(\"$99.99\")).toBeVisible();\n});", left |-> Inches(1000), top |-> Inches(1800), width |-> Inches(11000), height |-> Inches(2500), font_size |-> 18],
    [op |-> "add_subtitle", line |-> 394, text |-> "User Service returns { tier: 'free' }", top |-> Inches(5000), font_size |-> 28, color |-> V3_GREEN],
    [op |-> "add_subtitle", line |-> 395, text |-> "No test account needed. Just a different response.", top |-> Inches(5800), font_size |-> 28, color |-> V3_YELLOW],
    [op |-> "add_dark_slide", line |-> 400],
    [op |-> "add_title", line |-> 401, text |-> "Test 3: Offer Ended", top |-> Inches(500), font_size |-> 40, color |-> V3_WHITE],
    [op |-> "add_code_block", line |-> 408, code |-> "test(\"offer ended shows sold out\", async ({ page, switchScenario }) => {\n  await switchScenario(\"offerEnded\");\n  await page.goto(\"/products/1\");\n  await expect(page.getByText(\"Sold Out\")).toBeVisible();\n});", left |-> Inches(1000), top |-> Inches(1800), width |-> Inches(11000), height |-> Inches(2500), font_size |-> 18],
    [op |-> "add_subtitle", line |-> 410, text |-> "Inventory Service returns { quantity: 0 }", top |-> Inches(5000), font_size |-> 28, color |-> V3_GREEN],
    [op |-> "add_subtitle", line |-> 411, text |-> "No database editing. Just a different response.", top |-> Inches(5800), font_size |-> 28, color |-> V3_YELLOW],
    [op |-> "add_dark_slide", line |-> 416],
    [op |-> "add_title", line |-> 417, text |-> "Test 4: Shipping Service Down", top |-> Inches(500), font_size |-> 40, color |-> V3_WHITE],
    [op |-> "add_code_block", line |-> 424, code |-> "test(\"handles shipping errors gracefully\", async ({ page, switchScenario }) => {\n  await switchScenario(\"shippingServiceDown\");\n  await page.goto(\"/checkout\");\n  await expect(page.getByText(\"Unable to load shipping\")).toBeVisible();\n});", left |-> Inches(1000), top |-> Inches(1800), width |-> Inches(11000), height |-> Inches(2500), font_size |-> 18],
    [op |-> "add_subtitle", line |-> 426, text |-> "Shipping Service returns 500 error", top |-> Inches(5000), font_size |-> 28, color |-> V3_RED],
    [op |-> "add_subtitle", line |-> 427, text |-> "Test your error handling without breaking anything.", top |-> Inches(5800), font_size |-> 28, color |-> V3_YELLOW],
    [op |-> "add_dark_slide", line |-> 432],
    [op |-> "add_title", line |-> 433, text |-> "Backend Services Terminal:", top |-> Inches(1500), font_size |-> 40, color |-> V3_WHITE],
    [op |-> "add_textbox", line |-> 436, left |-> Inches(4000), top |-> Inches(2500), width |-> Inches(5000), height |-> Inches(2000)],
    [op |-> "paragraphs[0]", line |-> 438],
    [op |-> "text", line |-> 439, value |-> "0 Requests"],
    [op |-> "font.size", line |-> 440, value |-> 72],
    [op |-> "font.color.rgb", line |-> 441, value |-> V3_YELLOW],
    [op |-> "font.bold", line |-> 442, value |-> "True"],
    [op |-> "alignment", line |-> 443, value |-> "CENTER"],
    [op |-> "add_subtitle", line |-> 445, text |-> "Scenarist intercepted everything.", top |-> Inches(5200), font_size |-> 32, color |-> V3_GREEN],
    [op |-> "add_subtitle", line |-> 446, text |-> "The real services are running, but we never hit them.", top |-> Inches(6000), font_size |-> 24, color |-> V3_WHITE],
    [op |-> "add_dark_slide", line |-> 451],
    [op |-> "add_title", line |-> 452, text |-> "Four Scenarios", top |-> Inches(800), font_size |-> 48, color |-> V3_WHITE],
    [op |-> "add_bullet_point", line |-> 454, text |-> "Pro user discount (was: Annoying)", left |-> Inches(2000), top |-> Inches(2200), color |-> V3_GREEN, icon |-> "1."],
    [op |-> "add_bullet_point", line |-> 455, text |-> "Free user full price (was: Annoying)", left |-> Inches(2000), top |-> Inches(3000), color |-> V3_GREEN, icon |-> "2."],
    [op |-> "add_bullet_point", line |-> 456, text |-> "Offer ended (was: Hard)", left |-> Inches(2000), top |-> Inches(3800), color |-> V3_GREEN, icon |-> "3."],
    [op |-> "add_bullet_point", line |-> 457, text |-> "Shipping service down (was: Hard)", left |-> Inches(2000), top |-> Inches(4600), color |-> V3_GREEN, icon |-> "4."],
    [op |-> "add_subtitle", line |-> 459, text |-> "Now they're just... tests.", top |-> Inches(5800), font_size |-> 36, color |-> V3_YELLOW],
    [op |-> "add_dark_slide", line |-> 464],
    [op |-> "add_title", line |-> 465, text |-> "Parallel Test Isolation", top |-> Inches(500), font_size |-> 44, color |-> V3_WHITE],
    [op |-> "add_subtitle", line |-> 466, text |-> "What about running 50 tests at once?", top |-> Inches(1300), font_size |-> 24, color |-> V3_ZINC_400],
    [op |-> "add_shape", line |-> 479, kind |-> "ROUNDED_RECTANGLE", left |-> Inches(1000), top |-> Inches(2200), width |-> Inches(2500), height |-> Inches(700)],
    [op |-> "fill.solid", line |-> 480],
    [op |-> "fill.fore_color.rgb", line |-> 481, value |-> V3_USER_BLUE],
    [op |-> "line.fill.background", line |-> 482],
    [op |-> "text", line |-> 484, on |-> "tf.paragraphs[0]", value |-> "Test A (abc123)"],
    [op |-> "font.size", line |-> 485, on |-> "tf.paragraphs[0]", value |-> 14],
    [op |-> "font.color.rgb", line |-> 486, on |-> "tf.paragraphs[0]", value |-> V3_WHITE],
    [op |-> "alignment", line |-> 487, on |-> "tf.paragraphs[0]", value |-> "CENTER"],
    [op |-> "add_bullet_point", line |-> 490, text |-> "→", left |-> Inches(3600), top |-> Inches(2200), color |-> V3_WHITE, icon |-> ""],
    [op |-> "add_bullet_point", line |-> 493, text |-> "proUser", left |-> Inches(4200), top |-> Inches(2200), color |-> V3_ZINC_400, icon |-> ""],
    [op |-> "add_bullet_point", line |-> 496, text |-> "→", left |-> Inches(6800), top |-> Inches(2200), color |-> V3_WHITE, icon |-> ""],
    [op |-> "add_bullet_point", line |-> 499, text |-> "20% discount", left |-> Inches(7400), top |-> Inches(2200), color |-> V3_USER_BLUE, icon |-> ""],
    [op |-> "add_shape", line |-> 479, kind |-> "ROUNDED_RECTANGLE", left |-> Inches(1000), top |-> Inches(3100), width |-> Inches(2500), height |-> Inches(700)],
    [op |-> "fill.solid", line |-> 480],
    [op |-> "fill.fore_color.rgb", line |-> 481, value |-> V3_INVENTORY_GREEN],
    [op |-> "line.fill.background", line |-> 482],
    [op |-> "text", line |-> 484, on |-> "tf.paragraphs[0]", value |-> "Test B (def456)"],
    [op |-> "font.size", line |-> 485, on |-> "tf.paragraphs[0]", value |-> 14],
    [op |-> "font.color.rgb", line |-> 486, on |-> "tf.paragraphs[0]", value |-> V3_WHITE],
    [op |-> "alignment", line |-> 487, on |-> "tf.paragraphs[0]", value |-> "CENTER"],
    [op |-> "add_bullet_point", line |-> 490, text |-> "→", left |-> Inches(3600), top |-> Inches(3100), color |-> V3_WHITE, icon |-> ""],
    [op |-> "add_bullet_point", line |-> 493, text |-> "freeUser", left |-> Inches(4200), top |-> Inches(3100), color |-> V3_ZINC_400, icon |-> ""],
    [op |-> "add_bullet_point", line |-> 496, text |-> "→", left |-> Inches(6800), top |-> Inches(3100), color |-> V3_WHITE, icon |-> ""],
    [op |-> "add_bullet_point", line |-> 499, text |-> "Full price", left |-> Inches(7400), top |-> Inches(3100), color |-> V3_INVENTORY_GREEN, icon |-> ""],
    [op |-> "add_shape", line |-> 479, kind |-> "ROUNDED_RECTANGLE", left |-> Inches(1000), top |-> Inches(4000), width |-> Inches(2500), height |-> Inches(700)],
    [op |-> "fill.solid", line |-> 480],
    [op |-> "fill.fore_color.rgb", line |-> 481, value |-> V3_SHIPPING_PURPLE],
    [op |-> "line.fill.background", line |-> 482],
    [op |-> "text", line |-> 484, on |-> "tf.paragraphs[0]", value |-> "Test C (ghi789)"],
    [op |-> "font.size", line |-> 485, on |-> "tf.paragraphs[0]", value |-> 14],
    [op |-> "font.color.rgb", line |-> 486, on |-> "tf.paragraphs[0]", value |-> V3_WHITE],
    [op |-> "alignment", line |-> 487, on |-> "tf.paragraphs[0]", value |-> "CENTER"],
    [op |-> "add_bullet_point", line |-> 490, text |-> "→", left |-> Inches(3600), top |-> Inches(4000), color |-> V3_WHITE, icon |-> ""],
    [op |-> "add_bullet_point", line |-> 493, text |-> "offerEnded", left |-> Inches(4200), top |-> Inches(4000), color |-> V3_ZINC_400, icon |-> ""],
    [op |-> "add_bullet_point", line |-> 496, text |-> "→", left |-> Inches(6800), top |-> Inches(4000), color |-> V3_WHITE, icon |-> ""],
    [op |-> "add_bullet_point", line |-> 499, text |-> "Sold Out", left |-> Inches(7400), top |-> Inches(4000), color |-> V3_SHIPPING_PURPLE, icon |-> ""],
    [op |-> "add_shape", line |-> 479, kind |-> "ROUNDED_RECTANGLE", left |-> Inches(1000), top |-> Inches(4900), width |-> Inches(2500), height |-> Inches(700)],
    [op |-> "fill.solid", line |-> 480],
    [op |-> "fill.fore_color.rgb", line |-> 481, value |-> V3_RED],
    [op |-> "line.fill.background", line |-> 482],
    [op |-> "text", line |-> 484, on |-> "tf.paragraphs[0]", value |-> "Test D (jkl012)"],
    [op |-> "font.size", line |-> 485, on |-> "tf.paragraphs[0]", value |-> 14],
    [op |-> "font.color.rgb", line |-> 486, on |-> "tf.paragraphs[0]", value |-> V3_WHITE],
    [op |-> "alignment", line |-> 487, on |-> "tf.paragraphs[0]", value |-> "CENTER"],
    [op |-> "add_bullet_point", line |-> 490, text |-> "→", left |-> Inches(3600), top |-> Inches(4900), color |-> V3_WHITE, icon |-> ""],
    [op |-> "add_bullet_point", line |-> 493, text |-> "shippingDown", left |-> Inches(4200), top |-> Inches(4900), color |-> V3_ZINC_400, icon |-> ""],
    [op |-> "add_bullet_point", line |-> 496, text |-> "→", left |-> Inches(6800), top |-> Inches(4900), color |-> V3_WHITE, icon |-> ""],
    [op |-> "add_bullet_point", line |-> 499, text |-> "Error handling", left |-> Inches(7400), top |-> Inches(4900), color |-> V3_RED, icon |-> ""],
    [op |-> "add_subtitle", line |-> 501, text |-> "Same server. Same endpoints. Different responses.", top |-> Inches(6200), font_size |-> 28, color |-> V3_YELLOW],
    [op |-> "add_dark_slide", line |-> 506],
    [op |-> "add_title", line |-> 507, text |-> "x-scenarist-test-id", top |-> Inches(2000), font_size |-> 48, color |-> V3_YELLOW],
    [op |-> "add_subtitle", line |-> 508, text |-> "Every request includes this header.", top |-> Inches(3200), font_size |-> 28, color |-> V3_WHITE],
    [op |-> "add_subtitle", line |-> 509, text |-> "Scenarist looks up the scenario for that specific test.", top |-> Inches(4000), font_size |-> 28, color |-> V3_WHITE],
    [op |-> "add_subtitle", line |-> 510, text |-> "50 tests in parallel. Zero conflicts.", top |-> Inches(5200), font_size |-> 32, color |-> V3_GREEN],
    [op |-> "add_dark_slide", line |-> 515],
    [op |-> "add_title", line |-> 516, text |-> "But What About...", top |-> Inches(800), font_size |-> 44, color |-> V3_WHITE],
    [op |-> "add_subtitle", line |-> 517, text |-> "\"Offer ends during checkout\"", top |-> Inches(1800), font_size |-> 36, color |-> V3_RED],
    [op |-> "add_subtitle", line |-> 518, text |-> "The one that was truly impossible?", top |-> Inches(2600), font_size |-> 24, color |-> V3_ZINC_400],
    [op |-> "add_code_block", line |-> 528, code |-> "// Response Sequences\n{\n  url: \"/inventory/1\",\n  sequence: [\n    { quantity: 15 },  // First call: available\n    { quantity: 0 },   // Second call: sold out\n  ]\n}", left |-> Inches(2000), top |-> Inches(3500), width |-> Inches(9000), height |-> Inches(2800), font_size |-> 18],
    [op |-> "add_subtitle", line |-> 530, text |-> "That's the next video.", top |-> Inches(6500), font_size |-> 28, color |-> V3_YELLOW],
    [op |-> "add_dark_slide", line |-> 535],
    [op |-> "add_title", line |-> 536, text |-> "One Server, Unlimited Scenarios", top |-> Inches(2500), font_size |-> 48, color |-> V3_WHITE],
    [op |-> "add_subtitle", line |-> 537, text |-> "github.com/citypaul/scenarist", top |-> Inches(3800), font_size |-> 28, color |-> V3_YELLOW],
    [op |-> "add_subtitle", line |-> 538, text |-> "Next: Response Sequences", top |-> Inches(5000), font_size |-> 24, color |-> V3_ZINC_400],
    [op |-> "output_path", line |-> 542, value |-> "/docs/promotional-campaign/presentations/video-03-one-server-unlimited-scenarios.pptx"],
    [op |-> "save", line |-> 543],
    [op |-> "print", line |-> 544, prefix |-> "Presentation saved to: "]>>

Program4 ==
  <<[op |-> "slide_width", line |-> 152, value |-> Inches(13333)],
    [op |-> "slide_height", line |-> 153, value |-> Inches(7500)],
    [op |-> "add_dark_slide", line |-> 156],
    [op |-> "add_title", line |-> 157, text |-> "Response Sequences", top |-> Inches(2500), font_size |-> 54, color |-> V4_WHITE],
    [op |-> "add_subtitle", line |-> 158, text |-> "The Impossible Test", top |-> Inches(3500), font_size |-> 36, color |-> V4_YELLOW],
    [op |-> "add_subtitle", line |-> 159, text |-> "Scenarist Video 4", top |-> Inches(5000), font_size |-> 20, color |-> V4_ZINC_400],
    [op |-> "add_dark_slide", line |-> 162],
    [op |-> "add_title", line |-> 163, text |-> "The Scenario", top |-> Inches(500), font_size |-> 44, color |-> V4_WHITE],
    [op |-> "add_bullet_point", line |-> 175, text |-> "1. User loads product page", left |-> Inches(1000), top |-> Inches(1500), color |-> V4_GREEN, icon |-> ""],
    [op |-> "add_bullet_point", line |-> 177, text |-> "15 items in stock", left |-> Inches(5000), top |-> Inches(1500), color |-> V4_ZINC_400, icon |-> ""],
    [op |-> "add_bullet_point", line |-> 175, text |-> "2. User adds to cart", left |-> Inches(1000), top |-> Inches(1500) + Inches(700), color |-> V4_WHITE, icon |-> ""],
    [op |-> "add_bullet_point", line |-> 175, text |-> "3. User fills payment details", left |-> Inches(1000), top |-> Inches(1500) + Inches(700) + Inches(700), color |-> V4_WHITE, icon |-> ""],
    [op |-> "add_bullet_point", line |-> 175, text |-> "4. Meanwhile...", left |-> Inches(1000), top |-> Inches(1500) + Inches(700) + Inches(700) + Inches(700), color |-> V4_RED, icon |-> ""],
    [op |-> "add_bullet_point", line |-> 177, text |-> "Someone else buys the last one", left |-> Inches(5000), top |-> Inches(1500) + Inches(700) + Inches(700) + Inches(700), color |-> V4_ZINC_400, icon |-> ""],
    [op |-> "add_bullet_point", line |-> 175, text |-> "5. User clicks Pay", left |-> Inches(1000), top |-> Inches(1500) + Inches(700) + Inches(700) + Inches(700) + Inches(700), color |-> V4_YELLOW, icon |-> ""],
    [op |-> "add_bullet_point", line |-> 177, text |-> "What happens?", left |-> Inches(5000), top |-> Inches(1500) + Inches(700) + Inches(700) + Inches(700) + Inches(700), color |-> V4_ZINC_400, icon |-> ""],
    [op |-> "add_dark_slide", line |-> 181],
    [op |-> "add_title", line |-> 182, text |-> "The Problem", top |-> Inches(500), font_size |-> 44, color |-> V4_WHITE],
    [op |-> "add_subtitle", line |-> 183, text |-> "Traditional mocks return the same response every time", top |-> Inches(1500), font_size |-> 28, color |-> V4_ZINC_400],
    [op |-> "add_code_block", line |-> 185, code |-> "server.use(\n  http.get(\"/api/inventory\", () => {\n    return HttpResponse.json([{ quantity: 15 }]);\n  })\n);", left |-> Inches(2000), top |-> Inches(2500), width |-> Inches(9000), height |-> Inches(2000), font_size |-> 14],
    [op |-> "add_subtitle", line |-> 191, text |-> "Same endpoint. Same response. Every call.", top |-> Inches(5000), font_size |-> 28, color |-> V4_RED],
    [op |-> "add_dark_slide", line |-> 194],
    [op |-> "add_title", line |-> 195, text |-> "How Would You Test This?", top |-> Inches(300), font_size |-> 40, color |-> V4_WHITE],
    [op |-> "add_bullet_point", line |-> 205, text |-> "Option 1: Edit db.json mid-test", left |-> Inches(500), top |-> Inches(1500), color |-> V4_WHITE, icon |-> "×"],
    [op |-> "add_bullet_point", line |-> 206, text |-> "Flaky, manual, unreproducible", left |-> Inches(1000), top |-> Inches(1500) + Inches(500), color |-> V4_ZINC_400, icon |-> ""],
    [op |-> "add_bullet_point", line |-> 205, text |-> "Option 2: Two browser sessions", left |-> Inches(500), top |-> Inches(1500) + Inches(1200), color |-> V4_WHITE, icon |-> "×"],
    [op |-> "add_bullet_point", line |-> 206, text |-> "Impossible to coordinate timing", left |-> Inches(1000), top |-> Inches(1500) + Inches(1200) + Inches(500), color |-> V4_ZINC_400, icon |-> ""],
    [op |-> "add_bullet_point", line |-> 205, text |-> "Option 3: Mock at function layer", left |-> Inches(500), top |-> Inches(1500) + Inches(1200) + Inches(1200), color |-> V4_WHITE, icon |-> "×"],
    [op |-> "add_bullet_point", line |-> 206, text |-> "Not testing real HTTP code", left |-> Inches(1000), top |-> Inches(1500) + Inches(1200) + Inches(1200) + Inches(500), color |-> V4_ZINC_400, icon |-> ""],
    [op |-> "add_box", line |-> 209, text |-> "With Scenarist: Define sequence. Run test. Done.", left |-> Inches(1500), top |-> Inches(5500), width |-> Inches(10000), height |-> Inches(800), bg_color |-> V4_GREEN, text_color |-> V4_WHITE, font_size |-> 24],
    [op |-> "add_dark_slide", line |-> 213],
    [op |-> "add_title", line |-> 214, text |-> "Response Sequences", top |-> Inches(500), font_size |-> 44, color |-> V4_WHITE],
    [op |-> "add_subtitle", line |-> 215, text |-> "Different response on each call", top |-> Inches(1300), font_size |-> 28, color |-> V4_ZINC_400],
    [op |-> "add_box", line |-> 218, text |-> "Call #1\n15 units", left |-> Inches(1500), top |-> Inches(2500), width |-> Inches(3000), height |-> Inches(1500), bg_color |-> V4_GREEN, text_color |-> V4_WHITE, font_size |-> 20],
    [op |-> "add_box", line |-> 219, text |-> "Call #2\n0 units", left |-> Inches(5200), top |-> Inches(2500), width |-> Inches(3000), height |-> Inches(1500), bg_color |-> V4_RED, text_color |-> V4_WHITE, font_size |-> 20],
    [op |-> "add_box", line |-> 220, text |-> "Call #3+\n0 units", left |-> Inches(8900), top |-> Inches(2500), width |-> Inches(3000), height |-> Inches(1500), bg_color |-> V4_ZINC_400, text_color |-> V4_WHITE, font_size |-> 20],
    [op |-> "add_subtitle", line |-> 222, text |-> "Same endpoint → Different responses → Based on call order", top |-> Inches(5000), font_size |-> 28, color |-> V4_ZINC_400],
    [op |-> "add_dark_slide", line |-> 225],
    [op |-> "add_title", line |-> 226, text |-> "The Sequence Definition", top |-> Inches(300), font_size |-> 40, color |-> V4_WHITE],
    [op |-> "add_code_block", line |-> 239, code |-> "sequence: {\n  responses: [\n    // First call (products page): in stock\n    { status: 200, body: [{ quantity: 15 }] },\n\n    // Second call (checkout): sold out\n    { status: 200, body: [{ quantity: 0 }] },\n  ],\n  repeat: \"last\",\n}", left |-> Inches(1500), top |-> Inches(1300), width |-> Inches(10000), height |-> Inches(4500), font_size |-> 18],
    [op |-> "add_subtitle", line |-> 241, text |-> "repeat: \"last\" = keep returning final response", top |-> Inches(6000), font_size |-> 28, color |-> V4_ZINC_400],
    [op |-> "add_dark_slide", line |-> 244],
    [op |-> "add_title", line |-> 245, text |-> "The Result", top |-> Inches(500), font_size |-> 44, color |-> V4_WHITE],
    [op |-> "add_bullet_point", line |-> 256, text |-> "○ Deterministic", left |-> Inches(1500), top |-> Inches(1800), color |-> V4_GREEN, icon |-> ""],
    [op |-> "add_bullet_point", line |-> 257, text |-> "Same result every time", left |-> Inches(2000), top |-> Inches(1800) + Inches(450), color |-> V4_ZINC_400, icon |-> ""],
    [op |-> "add_bullet_point", line |-> 256, text |-> "○ Fast", left |-> Inches(1500), top |-> Inches(1800) + Inches(1000), color |-> V4_GREEN, icon |-> ""],
    [op |-> "add_bullet_point", line |-> 257, text |-> "No timing coordination needed", left |-> Inches(2000), top |-> Inches(1800) + Inches(1000) + Inches(450), color |-> V4_ZINC_400, icon |-> ""],
    [op |-> "add_bullet_point", line |-> 256, text |-> "○ Real code paths", left |-> Inches(1500), top |-> Inches(1800) + Inches(1000) + Inches(1000), color |-> V4_GREEN, icon |-> ""],
    [op |-> "add_bullet_point", line |-> 257, text |-> "Actual HTTP calls are made", left |-> Inches(2000), top |-> Inches(1800) + Inches(1000) + Inches(1000) + Inches(450), color |-> V4_ZINC_400, icon |-> ""],
    [op |-> "add_bullet_point", line |-> 256, text |-> "○ Zero backend requests", left |-> Inches(1500), top |-> Inches(1800) + Inches(1000) + Inches(1000) + Inches(1000), color |-> V4_GREEN, icon |-> ""],
    [op |-> "add_bullet_point", line |-> 257, text |-> "MSW intercepts everything", left |-> Inches(2000), top |-> Inches(1800) + Inches(1000) + Inches(1000) + Inches(1000) + Inches(450), color |-> V4_ZINC_400, icon |-> ""],
    [op |-> "add_dark_slide", line |-> 261],
    [op |-> "add_title", line |-> 262, text |-> "Beyond Inventory", top |-> Inches(500), font_size |-> 44, color |-> V4_WHITE],
    [op |-> "add_subtitle", line |-> 263, text |-> "Sequences work for anything that changes over time", top |-> Inches(1300), font_size |-> 28, color |-> V4_ZINC_400],
    [op |-> "add_box", line |-> 274, text |-> "Payment Polling", left |-> Inches(1000), top |-> Inches(2300), width |-> Inches(4000), height |-> Inches(700), bg_color |-> V4_BLUE, text_color |-> V4_WHITE, font_size |-> 18],
    [op |-> "add_bullet_point", line |-> 275, text |-> "pending → processing → complete", left |-> Inches(5500), top |-> Inches(2300) + Inches(150), color |-> V4_WHITE, icon |-> ""],
    [op |-> "add_box", line |-> 274, text |-> "Retry Logic", left |-> Inches(1000), top |-> Inches(2300) + Inches(1000), width |-> Inches(4000), height |-> Inches(700), bg_color |-> V4_YELLOW, text_color |-> V4_WHITE, font_size |-> 18],
    [op |-> "add_bullet_point", line |-> 275, text |-> "fail → fail → succeed", left |-> Inches(5500), top |-> Inches(2300) + Inches(1000) + Inches(150), color |-> V4_WHITE, icon |-> ""],
    [op |-> "add_box", line |-> 274, text |-> "Session Expiry", left |-> Inches(1000), top |-> Inches(2300) + Inches(1000) + Inches(1000), width |-> Inches(4000), height |-> Inches(700), bg_color |-> V4_PURPLE, text_color |-> V4_WHITE, font_size |-> 18],
    [op |-> "add_bullet_point", line |-> 275, text |-> "valid → expired", left |-> Inches(5500), top |-> Inches(2300) + Inches(1000) + Inches(1000) + Inches(150), color |-> V4_WHITE, icon |-> ""],
    [op |-> "add_box", line |-> 274, text |-> "State Machines", left |-> Inches(1000), top |-> Inches(2300) + Inches(1000) + Inches(1000) + Inches(1000), width |-> Inches(4000), height |-> Inches(700), bg_color |-> V4_GREEN, text_color |-> V4_WHITE, font_size |-> 18],
    [op |-> "add_bullet_point", line |-> 275, text |-> "any state progression", left |-> Inches(5500), top |-> Inches(2300) + Inches(1000) + Inches(1000) + Inches(1000) + Inches(150), color |-> V4_WHITE, icon |-> ""],
    [op |-> "add_dark_slide", line |-> 279],
    [op |-> "add_title", line |-> 280, text |-> "Key Takeaway", top |-> Inches(2000), font_size |-> 54, color |-> V4_WHITE],
    [op |-> "add_subtitle", line |-> 281, text |-> "Test scenarios that are impossible\nwith real services", top |-> Inches(3200), font_size |-> 36, color |-> V4_YELLOW],
    [op |-> "add_subtitle", line |-> 288, text |-> "Define sequence. Run test. Done.", top |-> Inches(5000), font_size |-> 28, color |-> V4_ZINC_400],
    [op |-> "output_path", line |-> 291, value |-> "/docs/promotional-campaign/presentations/video-04-response-sequences.pptx"],
    [op |-> "save", line |-> 292],
    [op |-> "print", line |-> 293, prefix |-> "Created: "]>>

\* the statements of prog with the save moved up, before the last statement
\* that builds the deck
SaveEarly(prog) ==
  LET n == Len(prog)
  IN  SubSeq(prog, 1, n - 4) \o <<prog[n - 2], prog[n - 1], prog[n - 3], prog[n]>>

\* mutant of Program: script 4 saves before its last element is added
ProgramSaveEarly == <<Program1, Program2, Program3, SaveEarly(Program4)>>

Program == <<Program1, Program2, Program3, Program4>>

\* where each script writes its presentation
OutputPaths ==
  {"video-01-the-testing-gap.pptx",
   "video-02-meet-payflow.pptx",
   "/docs/promotional-campaign/presentations/video-03-one-server-unlimited-scenarios.pptx",
   "/docs/promotional-campaign/presentations/video-04-response-sequences.pptx"}

OutputPath(v) ==
  CASE v = 1 -> "video-01-the-testing-gap.pptx"
    [] v = 2 -> "video-02-meet-payflow.pptx"
    [] v = 3 -> "/docs/promotional-campaign/presentations/video-03-one-server-unlimited-scenarios.pptx"
    [] v = 4 -> "/docs/promotional-campaign/presentations/video-04-response-sequences.pptx"

\* what a path of the file system holds: nothing, or a saved deck
Absent == [exists |-> FALSE, complete |-> FALSE, deck |-> << >>]

\* a presentation left at the output path by an earlier run
OldArtifact ==
  [exists |-> TRUE, complete |-> TRUE, deck |-> <<[id |-> 1, shapes |-> << >>]>>]

\* the file a completed prs.save leaves: the whole deck
Written(deck) == [exists |-> TRUE, complete |-> TRUE, deck |-> deck]

\* the file a write that failed part-way leaves: not a readable presentation
HalfWritten == [exists |-> TRUE, complete |-> FALSE, deck |-> << >>]

(***************************************************************************)
(* The state of a run.                                                     *)
(***************************************************************************)
VARIABLES
  script,        \* which script runs: 1..4
  pc,            \* the index in Program[script] of the next statement
  status,        \* "running", "done" (the script ended), "IOError" (save raised),
                 \* "Exception" (another call raised), "library" (add_arrow on its own)
  slide_width,   \* prs.slide_width
  slide_height,  \* prs.slide_height
  slides,        \* prs.slides: the deck, a sequence of slides
  slide,         \* the script's variable slide: the index of the slide it refers to
  shape,         \* the shape the script's latest shape variable refers to: <<slide, element>>
  p,             \* the paragraph the script's p refers to: <<slide, element, paragraph>>
  output_path,   \* the script's variable output_path
  files,         \* the file system at the output paths
  stdout,        \* the lines printed
  saves,         \* the paths prs.save was called with, in call order
  other          \* the deck an earlier create_presentation() call of this process built

vars ==
  <<script, pc, status, slide_width, slide_height, slides, slide, shape, p,
    output_path, files, stdout, saves, other>>

\* prs = Presentation(): the library's default template, 10 in x 7.5 in, no slides
Init ==
  /\ script \in 1..4
  /\ pc = 1
  /\ status = "running"
  /\ slide_width = Inches(10000)
  /\ slide_height = Inches(7500)
  /\ slides = << >>
  /\ slide = 0
  /\ shape = <<0, 0>>
  /\ p = <<0, 0, 0>>
  /\ output_path = ""
  /\ \E old \in {Absent, OldArtifact} :
       files = [f \in OutputPaths |-> IF f = OutputPath(script) THEN old ELSE Absent]
  /\ stdout = << >>
  /\ saves = << >>
  /\ other = << >>

\* the statement about to run
Stmt == Program[script][pc]

\* the statement that ran last
Prev == Program[script][pc - 1]

At(op) ==
  /\ status = "running"
  /\ pc <= Len(Program[script])
  /\ Stmt.op = op

Advance == pc' = pc + 1

(***************************************************************************)
(* Statements that set up the presentation.                                *)
(***************************************************************************)
SetSlideWidth ==
  /\ At("slide_width")
  /\ slide_width' = Stmt.value
  /\ Advance
  /\ UNCHANGED <<script, status, slide_height, slides, slide, shape, p, output_path, files, stdout, saves, other>>

SetSlideHeight ==
  /\ At("slide_height")
  /\ slide_height' = Stmt.value
  /\ Advance
  /\ UNCHANGED <<script, status, slide_width, slides, slide, shape, p, output_path, files, stdout, saves, other>>

(***************************************************************************)
(* Calls of the builder functions.  slide = add_dark_slide(prs) rebinds    *)
(* the script's slide; every other builder is handed that slide.           *)
(***************************************************************************)
\* mutant of CallAddDarkSlide: prs is one deck object shared by every call of
\* create_presentation, so the new slide lands in the earlier deck as well
CallAddDarkSlideShared ==
  /\ At("add_dark_slide")
  /\ LET r == add_dark_slide(script, slides, slide_width, slide_height)
     IN  /\ slides' = r.deck
         /\ slide' = r.slide
  /\ other' = IF other = << >> THEN other
              ELSE add_dark_slide(script, other, slide_width, slide_height).deck
  /\ Advance
  /\ UNCHANGED <<script, status, slide_width, slide_height, shape, p, output_path, files, stdout, saves>>

CallAddDarkSlide ==
  /\ At("add_dark_slide")
  /\ LET r == add_dark_slide(script, slides, slide_width, slide_height)
     IN  /\ slides' = r.deck
         /\ slide' = r.slide
  /\ Advance
  /\ UNCHANGED <<script, status, slide_width, slide_height, shape, p, output_path, files, stdout, saves, other>>

\* slide.shapes becomes what the builder makes of it
Build(shapes) ==
  /\ slides' = [slides EXCEPT ![slide].shapes = shapes]
  /\ Advance
  /\ UNCHANGED <<script, status, slide_width, slide_height, slide, shape, p, output_path, files, stdout, saves, other>>

CallAddTitle ==
  /\ At("add_title")
  /\ Build(add_title(script, slides[slide].shapes, Stmt.text, Stmt.top, Stmt.font_size,
                     Stmt.color))

CallAddSubtitle ==
  /\ At("add_subtitle")
  /\ Build(add_subtitle(script, slides[slide].shapes, Stmt.text, Stmt.top, Stmt.font_size,
                        Stmt.color))

CallAddCodeBlock ==
  /\ At("add_code_block")
  /\ Build(add_code_block(script, slides[slide].shapes, Stmt.code, Stmt.left, Stmt.top,
                          Stmt.width, Stmt.height,
                          IF "font_size" \in DOMAIN Stmt THEN Stmt.font_size ELSE 14))

CallAddBulletPoint ==
  /\ At("add_bullet_point")
  /\ Build(add_bullet_point(script, slides[slide].shapes, Stmt.text, Stmt.left, Stmt.top,
                            Stmt.color, Stmt.icon))

CallAddServiceBox ==
  /\ At("add_service_box")
  /\ Build(add_service_box(slides[slide].shapes, Stmt.name, Stmt.description, Stmt.color,
                           Stmt.left, Stmt.top, Stmt.width, Stmt.height))

CallAddBox ==
  /\ At("add_box")
  /\ Build(add_box(slides[slide].shapes, Stmt.text, Stmt.left, Stmt.top, Stmt.width,
                   Stmt.height, Stmt.bg_color, Stmt.text_color, Stmt.font_size))

(***************************************************************************)
(* Library calls the scripts make directly, outside the builders.  A new   *)
(* shape is bound to a script variable (left_box, txBox, box1, ...), which *)
(* the statements after it use; p = tf.paragraphs[0] and                   *)
(* p = tf.add_paragraph() bind the paragraph.                              *)
(***************************************************************************)
StmtAddShape ==
  /\ At("add_shape")
  /\ slides' = [slides EXCEPT ![slide].shapes =
                  add_shape(@, Stmt.kind, Stmt.left, Stmt.top, Stmt.width, Stmt.height)]
  /\ shape' = <<slide, Len(slides[slide].shapes) + 1>>
  /\ Advance
  /\ UNCHANGED <<script, status, slide_width, slide_height, slide, p, output_path, files, stdout, saves, other>>

\* mutant of StmtAddTextbox: the new text box is not bound to the variable the
\* next statements use, which go on changing the shape created before it
StmtAddTextboxUnbound ==
  /\ At("add_textbox")
  /\ slides' = [slides EXCEPT ![slide].shapes =
                  add_textbox(@, Stmt.left, Stmt.top, Stmt.width, Stmt.height)]
  /\ Advance
  /\ UNCHANGED <<script, status, slide_width, slide_height, slide, shape, p, output_path, files, stdout, saves, other>>

StmtAddTextbox ==
  /\ At("add_textbox")
  /\ slides' = [slides EXCEPT ![slide].shapes =
                  add_textbox(@, Stmt.left, Stmt.top, Stmt.width, Stmt.height)]
  /\ shape' = <<slide, Len(slides[slide].shapes) + 1>>
  /\ Advance
  /\ UNCHANGED <<script, status, slide_width, slide_height, slide, p, output_path, files, stdout, saves, other>>

\* a statement that changes the shape the script's shape variable refers to
OnShape(shapes) ==
  /\ slides' = [slides EXCEPT ![shape[1]].shapes = shapes]
  /\ Advance
  /\ UNCHANGED <<script, status, slide_width, slide_height, slide, shape, p, output_path, files, stdout, saves, other>>

StmtFillSolid ==
  /\ At("fill.solid")
  /\ OnShape(fill_solid(slides[shape[1]].shapes, shape[2]))

StmtFillForeColor ==
  /\ At("fill.fore_color.rgb")
  /\ OnShape(set_fill_fore_color(slides[shape[1]].shapes, shape[2], Stmt.value))

StmtLineFillBackground ==
  /\ At("line.fill.background")
  /\ OnShape(line_fill_background(slides[shape[1]].shapes, shape[2]))

StmtLineColor ==
  /\ At("line.color.rgb")
  /\ OnShape(set_line_color(slides[shape[1]].shapes, shape[2], Stmt.value))

StmtWordWrap ==
  /\ At("word_wrap")
  /\ OnShape(set_word_wrap(slides[shape[1]].shapes, shape[2], Stmt.value))

\* p = tf.paragraphs[0], tf the text frame of the script's shape
StmtParagraphs0 ==
  /\ At("paragraphs[0]")
  /\ p' = <<shape[1], shape[2], 1>>
  /\ Advance
  /\ UNCHANGED <<script, status, slide_width, slide_height, slides, slide, shape, output_path, files, stdout, saves, other>>

StmtAddParagraph ==
  /\ At("add_paragraph")
  /\ slides' = [slides EXCEPT ![shape[1]].shapes = add_paragraph(@, shape[2])]
  /\ p' = <<shape[1], shape[2], Len(slides[shape[1]].shapes[shape[2]].paragraphs) + 1>>
  /\ Advance
  /\ UNCHANGED <<script, status, slide_width, slide_height, slide, shape, output_path, files, stdout, saves, other>>

\* the paragraph a statement assigns to: the one the script's p refers to, or,
\* where the statement is written tf.paragraphs[0].x = ..., the first paragraph
\* of the text frame of the script's shape; p is not bound by that
Target ==
  IF "on" \in DOMAIN Stmt THEN <<shape[1], shape[2], 1>> ELSE p

\* a statement that changes a paragraph of slide s
OnParagraph(s, shapes) ==
  /\ slides' = [slides EXCEPT ![s].shapes = shapes]
  /\ Advance
  /\ UNCHANGED <<script, status, slide_width, slide_height, slide, shape, p, output_path, files, stdout, saves, other>>

StmtText ==
  /\ At("text")
  /\ LET t == Target
     IN  OnParagraph(t[1], set_text(slides[t[1]].shapes, t[2], t[3], Stmt.value))

StmtFontSize ==
  /\ At("font.size")
  /\ LET t == Target
     IN  OnParagraph(t[1], set_font_size(slides[t[1]].shapes, t[2], t[3], Pt(Stmt.value)))

StmtFontBold ==
  /\ At("font.bold")
  /\ LET t == Target
     IN  OnParagraph(t[1], set_font_bold(slides[t[1]].shapes, t[2], t[3], Stmt.value))

StmtFontColor ==
  /\ At("font.color.rgb")
  /\ LET t == Target
     IN  OnParagraph(t[1], set_font_color(slides[t[1]].shapes, t[2], t[3], Stmt.value))

StmtFontName ==
  /\ At("font.name")
  /\ LET t == Target
     IN  OnParagraph(t[1], set_font_name(slides[t[1]].shapes, t[2], t[3], Stmt.value))

StmtAlignment ==
  /\ At("alignment")
  /\ LET t == Target
     IN  OnParagraph(t[1], set_alignment(slides[t[1]].shapes, t[2], t[3], Stmt.value))

(***************************************************************************)
(* The end of the script: output_path = ..., prs.save(output_path),        *)
(* print(...).                                                             *)
(***************************************************************************)
SetOutputPath ==
  /\ At("output_path")
  /\ output_path' = Stmt.value
  /\ Advance
  /\ UNCHANGED <<script, status, slide_width, slide_height, slides, slide, shape, p, files, stdout, saves, other>>

\* mutant of Save: a failure to open the path is swallowed and the script goes on
SaveIgnoringFailure ==
  /\ At("save")
  /\ saves' = Append(saves, output_path)
  /\ \/ files' = [files EXCEPT ![output_path] = Written(slides)]
     \/ UNCHANGED files
  /\ Advance
  /\ UNCHANGED <<script, status, slide_width, slide_height, slides, slide, shape, p,
                 output_path, stdout, other>>

\* prs.save(output_path).  The library opens the path itself for writing (no
\* temporary file, no rename) and writes the package into it part by part.
\* Either the whole deck is written over whatever the path held; or the path
\* cannot be opened and the call raises with the path untouched; or the write
\* fails part-way and the call raises with a truncated file left at the path.
\* An exception ends the script: the scripts catch nothing.
Save ==
  /\ At("save")
  /\ saves' = Append(saves, output_path)
  /\ \/ /\ files' = [files EXCEPT ![output_path] = Written(slides)]
        /\ Advance
        /\ UNCHANGED status
     \/ /\ status' = "IOError"
        /\ UNCHANGED <<pc, files>>
     \/ /\ files' = [files EXCEPT ![output_path] = HalfWritten]
        /\ status' = "IOError"
        /\ UNCHANGED pc
  /\ UNCHANGED <<script, slide_width, slide_height, slides, slide, shape, p, output_path, stdout, other>>

\* mutant of PrintConfirmation: the line names the file of the script this one
\* was copied from, not output_path
PrintConfirmationCopied ==
  /\ At("print")
  /\ stdout' = Append(stdout, Stmt.prefix \o OutputPath(1))
  /\ Advance
  /\ status' = "done"
  /\ UNCHANGED <<script, slide_width, slide_height, slides, slide, shape, p, output_path,
                 files, saves, other>>

\* print(f"Presentation saved to: {output_path}"), the script's last statement
PrintConfirmation ==
  /\ At("print")
  /\ stdout' = Append(stdout, Stmt.prefix \o output_path)
  /\ Advance
  /\ status' = "done"
  /\ UNCHANGED <<script, slide_width, slide_height, slides, slide, shape, p, output_path, files, saves, other>>

Next ==
  \/ SetSlideWidth
  \/ SetSlideHeight
  \/ CallAddDarkSlide
  \/ CallAddTitle
  \/ CallAddSubtitle
  \/ CallAddCodeBlock
  \/ CallAddBulletPoint
  \/ CallAddServiceBox
  \/ CallAddBox
  \/ StmtAddShape
  \/ StmtAddTextbox
  \/ StmtFillSolid
  \/ StmtFillForeColor
  \/ StmtLineFillBackground
  \/ StmtLineColor
  \/ StmtWordWrap
  \/ StmtParagraphs0
  \/ StmtAddParagraph
  \/ StmtText
  \/ StmtFontSize
  \/ StmtFontBold
  \/ StmtFontColor
  \/ StmtFontName
  \/ StmtAlignment
  \/ SetOutputPath
  \/ Save
  \/ PrintConfirmation

Spec == Init /\ [][Next]_vars

(***************************************************************************)
(* Runs in which a library call fails.  The scripts have no try/except: an *)
(* exception raised inside a builder or by a library call of the script    *)
(* body unwinds to the top of the script, which ends there with a          *)
(* traceback.  What the call did before it raised stays in the deck in     *)
(* memory.                                                                 *)
(***************************************************************************)
\* the statements that build the deck
DeckOps ==
  {"slide_width", "slide_height", "add_dark_slide", "add_title", "add_subtitle",
   "add_code_block", "add_bullet_point", "add_service_box", "add_box", "add_shape",
   "add_textbox", "fill.solid", "fill.fore_color.rgb", "line.fill.background",
   "line.color.rgb", "word_wrap", "paragraphs[0]", "add_paragraph", "text",
   "font.size", "font.bold", "font.color.rgb", "font.name", "alignment"}

\* the statements that call a builder on the slide
BuilderOps ==
  {"add_title", "add_subtitle", "add_code_block", "add_bullet_point",
   "add_service_box", "add_box"}

\* slide.shapes after each library call of builder statement stmt of script v
Called(v, stmt, shapes) ==
  CASE stmt.op = "add_title" ->
         add_title_calls(v, shapes, stmt.text, stmt.top, stmt.font_size, stmt.color)
    [] stmt.op = "add_subtitle" ->
         add_subtitle_calls(v, shapes, stmt.text, stmt.top, stmt.font_size, stmt.color)
    [] stmt.op = "add_code_block" ->
         add_code_block_calls(v, shapes, stmt.code, stmt.left, stmt.top, stmt.width,
                              stmt.height,
                              IF "font_size" \in DOMAIN stmt THEN stmt.font_size ELSE 14)
    [] stmt.op = "add_bullet_point" ->
         add_bullet_point_calls(v, shapes, stmt.text, stmt.left, stmt.top, stmt.color,
                                stmt.icon)
    [] stmt.op = "add_service_box" ->
         add_service_box_calls(shapes, stmt.name, stmt.description, stmt.color, stmt.left,
                               stmt.top, stmt.width, stmt.height)
    [] stmt.op = "add_box" ->
         add_box_calls(shapes, stmt.text, stmt.left, stmt.top, stmt.width, stmt.height,
                       stmt.bg_color, stmt.text_color, stmt.font_size)

\* the decks statement stmt, the one at hand, can leave when one of its library calls
\* raises: the deck as the calls before the raising one left it.  A builder
\* raising in its k-th call leaves what its first k - 1 calls did;
\* shape.line.color.rgb = ... raising in the assignment leaves the outline that
\* reading shape.line.color made solid; any other statement of the script body
\* changes the deck in its last call only and leaves it as it was.
Interrupted(stmt) ==
  CASE stmt.op = "add_dark_slide" ->
         LET c == add_dark_slide_calls(script, slides, slide_width, slide_height)
         IN  {slides} \cup {c[k] : k \in 1..(Len(c) - 1)}
    [] stmt.op \in BuilderOps ->
         LET c == Called(script, stmt, slides[slide].shapes)
         IN  {slides} \cup
             {[slides EXCEPT ![slide].shapes = c[k]] : k \in 1..(Len(c) - 1)}
    [] stmt.op = "line.color.rgb" ->
         {slides, [slides EXCEPT ![shape[1]].shapes = line_color(@, shape[2])]}
    [] OTHER -> {slides}

\* mutant of Raise: the script catches the exception and goes on
RaiseCaught ==
  /\ At(Stmt.op)
  /\ Stmt.op \in DeckOps
  /\ Advance
  /\ UNCHANGED <<script, status, slide_width, slide_height, slides, slide, shape, p,
                 output_path, files, stdout, saves, other>>

\* a library call of the statement raises: the exception is not caught, the
\* script ends, and the deck in memory keeps what the statement's earlier calls
\* did
Raise ==
  /\ At(Stmt.op)
  /\ Stmt.op \in DeckOps
  /\ status' = "Exception"
  /\ slides' \in Interrupted(Stmt)
  /\ UNCHANGED <<script, pc, slide_width, slide_height, slide, shape, p, output_path,
                 files, stdout, saves, other>>

NextFail == Next \/ Raise

SpecFail == Init /\ [][NextFail]_vars

(***************************************************************************)
(* Running a script again.  Each invocation is a new process: it starts    *)
(* from prs = Presentation(), the library's empty default deck, whatever   *)
(* the output path holds.  The file system and what was printed outlive    *)
(* the process.                                                            *)
(***************************************************************************)
\* how many times the script is invoked
MaxRuns == 2

\* mutant of Rerun: the new run opens the artifact at its output path, when
\* there is a readable one, and builds on it
RerunLoadingArtifact ==
  /\ status \in {"done", "IOError"}
  /\ Len(saves) < MaxRuns
  /\ pc' = 1
  /\ status' = "running"
  /\ slide_width' = Inches(10000)
  /\ slide_height' = Inches(7500)
  /\ slides' = IF files[OutputPath(script)].complete
               THEN files[OutputPath(script)].deck ELSE << >>
  /\ slide' = 0
  /\ shape' = <<0, 0>>
  /\ p' = <<0, 0, 0>>
  /\ output_path' = ""
  /\ UNCHANGED <<script, files, stdout, saves, other>>

\* the script is invoked again, after a run that ended or whose save failed
Rerun ==
  /\ status \in {"done", "IOError"}
  /\ Len(saves) < MaxRuns
  /\ pc' = 1
  /\ status' = "running"
  /\ slide_width' = Inches(10000)
  /\ slide_height' = Inches(7500)
  /\ slides' = << >>
  /\ slide' = 0
  /\ shape' = <<0, 0>>
  /\ p' = <<0, 0, 0>>
  /\ output_path' = ""
  /\ UNCHANGED <<script, files, stdout, saves, other>>

NextAgain == Next \/ Rerun

SpecAgain == Init /\ [][NextAgain]_vars

(***************************************************************************)
(* create_presentation() called a second time in one process (scripts 3    *)
(* and 4, where the script body is a function).  prs is a local variable   *)
(* of the call: the second call makes its own Presentation(), and the deck *)
(* the first call built stays as it is, in memory.                         *)
(***************************************************************************)
CallAgain ==
  /\ status = "done"
  /\ script \in {3, 4}
  /\ other = << >>
  /\ other' = slides
  /\ pc' = 1
  /\ status' = "running"
  /\ slide_width' = Inches(10000)
  /\ slide_height' = Inches(7500)
  /\ slides' = << >>
  /\ slide' = 0
  /\ shape' = <<0, 0>>
  /\ p' = <<0, 0, 0>>
  /\ output_path' = ""
  /\ UNCHANGED <<script, files, stdout, saves>>

NextTwoDecks == Next \/ CallAgain

SpecTwoDecks == Init /\ [][NextTwoDecks]_vars

(***************************************************************************)
(* The builders that put a text box inside a backing shape, on their own:  *)
(* add_code_block of scripts 1, 2 and 4 and add_service_box of script 2,   *)
(* called with boxes drawn from small sets, the smallest ones included.    *)
(***************************************************************************)
\* how many such builder calls a slide is given
MaxInsets == 2

\* the boxes: at the canvas origin or inside it; 0.4 in wide or high, one unit
\* more, or of the sizes the scripts use
InsetLefts == {0, Inches(2000)}
InsetTops == {Inches(1500)}
InsetWidths == {Inches(400), Inches(400) + 1, Inches(3500)}
InsetHeights == {Inches(400), Inches(400) + 1, Inches(2000)}

\* prs = Presentation(); the canvas is set; slide = add_dark_slide(prs)
InitInset ==
  /\ script \in {1, 2, 4}
  /\ pc = 1
  /\ status = "builders"
  /\ slide_width = Inches(13333)
  /\ slide_height = Inches(7500)
  /\ LET r == add_dark_slide(script, << >>, Inches(13333), Inches(7500))
     IN  /\ slides = r.deck
         /\ slide = r.slide
  /\ shape = <<0, 0>>
  /\ p = <<0, 0, 0>>
  /\ output_path = ""
  /\ files = [f \in OutputPaths |-> Absent]
  /\ stdout = << >>
  /\ saves = << >>
  /\ other = << >>

\* slide.shapes becomes what a builder called on its own makes of it
BuildAlone(shapes) ==
  /\ status = "builders"
  /\ Len(slides[slide].shapes) < 1 + 2 * MaxInsets
  /\ slides' = [slides EXCEPT ![slide].shapes = shapes]
  /\ UNCHANGED <<script, pc, status, slide_width, slide_height, slide, shape, p,
                 output_path, files, stdout, saves, other>>

\* add_code_block(slide, code, left, top, width, height)
CallAddCodeBlockAlone(left, top, width, height) ==
  BuildAlone(add_code_block(script, slides[slide].shapes, "x = 1\n  y = 2", left, top,
                            width, height, 14))

\* add_service_box(slide, name, description, color, left, top, width, height)
CallAddServiceBoxAlone(left, top, width, height) ==
  /\ script = 2
  /\ BuildAlone(add_service_box(slides[slide].shapes, "Auth0", "Real SDK",
                                Palette2.AUTH0_ORANGE, left, top, width, height))

NextInset ==
  \E left \in InsetLefts, top \in InsetTops, width \in InsetWidths, height \in InsetHeights :
    \/ CallAddCodeBlockAlone(left, top, width, height)
    \/ CallAddServiceBoxAlone(left, top, width, height)

SpecInset == InitInset /\ [][NextInset]_vars

(***************************************************************************)
(* add_arrow on its own.  No script calls add_arrow, so its behaviour is   *)
(* explored from a script-4 deck of one dark slide, with the end points    *)
(* and the colour drawn from small sets.                                   *)
(***************************************************************************)
\* how many connectors a slide is given
MaxArrows == 2

\* the x and y coordinates the end points are drawn from
ArrowXs == {Inches(1000), Inches(5000)}
ArrowYs == {Inches(2000), Inches(4000)}

\* the colours: the default of add_arrow, and another of the palette
ArrowColors == {Palette4.ZINC_400, Palette4.YELLOW}

\* prs = Presentation(); the canvas is set; slide = add_dark_slide(prs)
InitArrow ==
  /\ script = 4
  /\ pc = 1
  /\ status = "library"
  /\ slide_width = Inches(13333)
  /\ slide_height = Inches(7500)
  /\ LET r == add_dark_slide(4, << >>, Inches(13333), Inches(7500))
     IN  /\ slides = r.deck
         /\ slide = r.slide
  /\ shape = <<0, 0>>
  /\ p = <<0, 0, 0>>
  /\ output_path = ""
  /\ files = [f \in OutputPaths |-> Absent]
  /\ stdout = << >>
  /\ saves = << >>
  /\ other = << >>

\* add_arrow(slide, start_left, start_top, end_left, end_top, color)
CallAddArrow(start_left, start_top, end_left, end_top, color) ==
  /\ status = "library"
  /\ Len(slides[slide].shapes) <= MaxArrows
  /\ slides' = [slides EXCEPT ![slide].shapes =
                  add_arrow(@, start_left, start_top, end_left, end_top, color)]
  /\ UNCHANGED <<script, pc, status, slide_width, slide_height, slide, shape, p,
                 output_path, files, stdout, saves, other>>

NextArrow ==
  \E start_left, end_left \in ArrowXs, start_top, end_top \in ArrowYs, color \in ArrowColors :
    CallAddArrow(start_left, start_top, end_left, end_top, color)

SpecArrow == InitArrow /\ [][NextArrow]_vars

(***************************************************************************)
(* Properties of a run.                                                    *)
(***************************************************************************)
\* the statement that ran last was a call of op (or a statement of kind op)
Ran(op) == pc > 1 /\ Prev.op = op

\* the elements of the slide the script's variable slide refers to
Shapes == slides[slide].shapes

\* how many statements of kind op have run
Count(op) == Cardinality({i \in 1..(pc - 1) : Program[script][i].op = op})

\* the element is the full-canvas background add_dark_slide makes
IsBackground(e) ==
  /\ e.type = "autoshape"
  /\ e.kind = "RECTANGLE"
  /\ e.left = 0
  /\ e.top = 0
  /\ e.width = slide_width
  /\ e.height = slide_height
  /\ e.fill = [type |-> "solid", rgb |-> Palette[script].DARK_BG]

\* C1: after N calls of add_dark_slide, N >= 0, the deck has exactly N slides, and
\* the first element of every slide is a rectangle at (0, 0) of the canvas width
\* and height, filled with DARK_BG.
C1_SlidesAndBackgrounds ==
  /\ Len(slides) = Count("add_dark_slide")
  /\ \A s \in 1..Len(slides) :
       /\ Len(slides[s].shapes) >= 1
       /\ IsBackground(slides[s].shapes[1])

\* C1 witness: several slides exist, and elements were put over a background
C1_Witness ==
  /\ Len(slides) >= 3
  /\ Count("add_dark_slide") >= 3
  /\ Len(slides[1].shapes) >= 2
  /\ IsBackground(slides[3].shapes[1])

\* text has a line break followed by indentation
HasIndentedLine(text) ==
  \E i \in 1..Len(text) : SubSeq(text, i, i + 2) = "\n  "

\* C2: after every add_code_block call, the text of the code block's text element
\* is the code argument, character for character: line breaks and leading
\* whitespace included, whatever the box.
C2_CodeVerbatim ==
  Ran("add_code_block") =>
    /\ Len(Last(Shapes).paragraphs) = 1
    /\ Last(Shapes).paragraphs[1].text = Prev.code

\* C2 witness: a code block whose code has line breaks and indented lines
C2_Witness ==
  /\ Ran("add_code_block")
  /\ HasIndentedLine(Prev.code)
  /\ HasIndentedLine(Last(Shapes).paragraphs[1].text)

InsideCanvas(e) ==
  /\ e.left >= 0
  /\ e.top >= 0
  /\ e.left + e.width <= slide_width
  /\ e.top + e.height <= slide_height

\* C3: every element the scripts create has its box inside the canvas: left >= 0,
\* top >= 0, left + width <= canvas width, top + height <= canvas height.
C3_AllInsideCanvas ==
  \A s \in 1..Len(slides) :
    \A i \in 1..Len(slides[s].shapes) : InsideCanvas(slides[s].shapes[i])

\* what stays of an element for as long as it exists: which object it is, its
\* kind and its box
Fixed(e) == <<e.id, e.type, e.kind, e.left, e.top, e.width, e.height>>

\* C4: in every step and on every slide, the elements already there stay, each at
\* its index (its place in the z-order): new elements only come after them.
C4_ElementsAppendOnly ==
  [][\A s \in 1..Len(slides) :
       /\ s <= Len(slides')
       /\ Len(slides'[s].shapes) >= Len(slides[s].shapes)
       /\ \A i \in 1..Len(slides[s].shapes) :
            Fixed(slides'[s].shapes[i]) = Fixed(slides[s].shapes[i])]_vars

\* C4 witness: a slide that took elements from several builders and library
\* calls, in creation order
C4_Witness ==
  /\ slide >= 1
  /\ Len(Shapes) >= 5
  /\ \A i \in 1..Len(Shapes) : Shapes[i].id = i
  /\ \E i, j \in 2..Len(Shapes) : Shapes[i].type = "textbox" /\ Shapes[j].type = "autoshape"

\* C5: in every step, the slides already in the deck stay, each at its index: none
\* is removed, none moves.
C5_SlidesAppendOnly ==
  [][/\ Len(slides') >= Len(slides)
     /\ \A s \in 1..Len(slides) : slides'[s].id = slides[s].id]_vars

\* C5 witness: a deck of several slides, in creation order
C5_Witness ==
  /\ Len(slides) >= 3
  /\ \A s \in 1..Len(slides) : slides[s].id = s

\* the number of elements of slide s of deck, 0 if there is no such slide
ElementCount(deck, s) == IF s <= Len(deck) THEN Len(deck[s].shapes) ELSE 0

\* C6: in every step, a slide that gets new elements is the most recently created
\* slide, the last of the deck.
C6_OnlyLatestSlideGrows ==
  [][\A s \in 1..Len(slides') :
       ElementCount(slides', s) # ElementCount(slides, s) => s = Len(slides')]_vars

\* C6 witness: an element was added to the latest slide while earlier slides exist
C6_Witness ==
  /\ Len(slides) >= 2
  /\ Ran("add_subtitle")
  /\ slide = Len(slides)
  /\ Len(Shapes) >= 3

\* C7 as claimed: the text element made by add_title, add_subtitle,
\* add_bullet_point, add_service_box and add_box has word-wrap enabled; the one
\* made by add_code_block has it disabled.
C7_AllButCodeBlockWrap ==
  /\ (Ran("add_title") \/ Ran("add_subtitle") \/ Ran("add_bullet_point")
        \/ Ran("add_service_box") \/ Ran("add_box"))
       => Last(Shapes).word_wrap = "True"
  /\ Ran("add_code_block") => Last(Shapes).word_wrap = "False"

\* C7 amended: add_title, add_subtitle, add_service_box and add_box enable
\* word-wrap on the text element they create; add_code_block disables it and is
\* the only builder that does; add_bullet_point does not set it (the text box
\* keeps the library's default).
C7_WordWrapByBuilder ==
  /\ (Ran("add_title") \/ Ran("add_subtitle") \/ Ran("add_service_box") \/ Ran("add_box"))
       => Last(Shapes).word_wrap = "True"
  /\ Ran("add_code_block") => Last(Shapes).word_wrap = "False"
  /\ Ran("add_bullet_point") => Last(Shapes).word_wrap = "None"

\* C7 witness: a bullet point was added, and its word-wrap is not set
C7_Witness ==
  /\ Ran("add_bullet_point")
  /\ Last(Shapes).type = "textbox"
  /\ Last(Shapes).word_wrap = "None"

\* C8: after every add_bullet_point call, the stored text is text when icon is
\* empty, and icon, one space, text when it is not.
C8_IconOneSpace ==
  Ran("add_bullet_point") =>
    Last(Shapes).paragraphs[1].text =
      IF Prev.icon = "" THEN Prev.text ELSE Prev.icon \o " " \o Prev.text

\* the text element add_title makes of its arguments
IsTitle(e, text, font_size, color) ==
  /\ e.type = "textbox"
  /\ e.word_wrap = "True"
  /\ Len(e.paragraphs) = 1
  /\ e.paragraphs[1].text = text
  /\ e.paragraphs[1].size = Pt(font_size)
  /\ e.paragraphs[1].bold = "True"
  /\ e.paragraphs[1].alignment = "CENTER"
  /\ e.paragraphs[1].color = color

\* C9: every add_title call appends exactly one element to the slide, a text
\* element with the given text, font size and colour, bold, centred, word-wrap
\* enabled; on a slide holding only its background the slide then has two
\* elements, the title second.
C9_TitleAppended ==
  [][At("add_title") =>
       /\ Len(slides'[slide].shapes) = Len(Shapes) + 1
       /\ SubSeq(slides'[slide].shapes, 1, Len(Shapes)) = Shapes
       /\ IsTitle(Last(slides'[slide].shapes), Stmt.text, Stmt.font_size, Stmt.color)
       /\ (Len(Shapes) = 1 /\ IsBackground(Shapes[1]))
            => /\ Len(slides'[slide].shapes) = 2
               /\ IsBackground(slides'[slide].shapes[1])
               /\ IsTitle(slides'[slide].shapes[2], Stmt.text, Stmt.font_size, Stmt.color)]_vars

\* C9 witness: a title was added to a slide that held only its background
C9_Witness ==
  /\ Ran("add_title")
  /\ Len(Shapes) = 2
  /\ IsBackground(Shapes[1])
  /\ IsTitle(Shapes[2], Prev.text, Prev.font_size, Prev.color)

\* text element t lies inside shape b, with a margin on every side
Inset(t, b) ==
  /\ t.left > b.left
  /\ t.top > b.top
  /\ t.left + t.width < b.left + b.width
  /\ t.top + t.height < b.top + b.height

\* C10: every add_code_block call appends exactly two elements: a filled rounded
\* rectangle at the given box, then a text element inset within it, with
\* word-wrap disabled and a fixed-width font.
C10_CodeBlockTwoElements ==
  [][At("add_code_block") =>
       LET old == Shapes
           new == slides'[slide].shapes
       IN  /\ Len(new) = Len(old) + 2
           /\ SubSeq(new, 1, Len(old)) = old
           /\ LET back == new[Len(old) + 1]
                  txt == new[Len(old) + 2]
              IN  /\ back.type = "autoshape"
                  /\ back.kind = "ROUNDED_RECTANGLE"
                  /\ back.fill.type = "solid"
                  /\ <<back.left, back.top, back.width, back.height>>
                       = <<Stmt.left, Stmt.top, Stmt.width, Stmt.height>>
                  /\ txt.type = "textbox"
                  /\ Inset(txt, back)
                  /\ txt.word_wrap = "False"
                  /\ txt.paragraphs[1].name = "Menlo"]_vars

\* the colour a labeled-box statement gives for the box
BoxColor(stmt) == IF stmt.op = "add_box" THEN stmt.bg_color ELSE stmt.color

\* C11: every labeled-box call (add_service_box, add_box) appends a filled
\* rounded rectangle at the given box in the given colour, and a text block of
\* two centred parts: a bold title line, then description lines that are not bold.
C11_LabeledBoxTwoParts ==
  [][(At("add_service_box") \/ At("add_box")) =>
       LET old == Shapes
           new == slides'[slide].shapes
           back == new[Len(old) + 1]
           txt == Last(new)
       IN  /\ Len(new) > Len(old)
           /\ SubSeq(new, 1, Len(old)) = old
           /\ back.type = "autoshape"
           /\ back.kind = "ROUNDED_RECTANGLE"
           /\ back.fill = [type |-> "solid", rgb |-> BoxColor(Stmt)]
           /\ <<back.left, back.top, back.width, back.height>>
                = <<Stmt.left, Stmt.top, Stmt.width, Stmt.height>>
           /\ Len(txt.paragraphs) >= 2
           /\ txt.paragraphs[1].bold = "True"
           /\ \A i \in 2..Len(txt.paragraphs) : txt.paragraphs[i].bold # "True"
           /\ \A i \in 1..Len(txt.paragraphs) : txt.paragraphs[i].alignment = "CENTER"]_vars

\* the connector e runs from (x1, y1) to (x2, y2) as a straight line of colour rgb
IsStraightLine(e, x1, y1, x2, y2, rgb) ==
  /\ e.type = "connector"
  /\ e.kind = "STRAIGHT"
  /\ <<begin_x(e), begin_y(e)>> = <<x1, y1>>
  /\ <<end_x(e), end_y(e)>> = <<x2, y2>>
  /\ e.line.fill = "solid"
  /\ e.line.rgb = rgb

\* C12: every add_arrow call appends exactly one element to the slide, a straight
\* line that starts at the given start point, ends at the given end point and is
\* drawn in the given colour; the elements before it stay as they were.
C12_ArrowAppended ==
  [][\A x1, x2 \in ArrowXs, y1, y2 \in ArrowYs, color \in ArrowColors :
       CallAddArrow(x1, y1, x2, y2, color) =>
         /\ Len(slides'[slide].shapes) = Len(Shapes) + 1
         /\ SubSeq(slides'[slide].shapes, 1, Len(Shapes)) = Shapes
         /\ IsStraightLine(Last(slides'[slide].shapes), x1, y1, x2, y2, color)]_vars

\* C12 witness: a connector that runs right to left and upwards was added over
\* the background, in the colour asked for
C12_Witness ==
  /\ status = "library"
  /\ Len(Shapes) = 2
  /\ IsBackground(Shapes[1])
  /\ IsStraightLine(Shapes[2], Inches(5000), Inches(4000), Inches(1000), Inches(2000),
                    Palette4.YELLOW)

\* no file holds anything this run wrote
NothingWritten == \A f \in OutputPaths : files[f] \in {Absent, OldArtifact}

\* C14: if a builder call fails, the run aborts at that call: the exception is
\* not caught and the script ends there; save is never called afterwards, no
\* artifact is written or overwritten, no confirmation is printed.
C14_FailureAborts ==
  [][/\ Raise => /\ status' = "Exception"
                 /\ pc' = pc
     /\ status' = "Exception" => /\ saves' = << >>
                                 /\ stdout' = << >>
                                 /\ NothingWritten'
     /\ status = "Exception" => UNCHANGED vars]_vars

\* C14 witness: a run ended by an exception inside add_dark_slide, after earlier
\* slides were built: fill.fore_color.rgb raised, so the deck in memory has a new
\* slide whose background has a solid fill of no colour yet; the old artifact is
\* still at the output path, nothing was saved or printed
C14_Witness ==
  /\ status = "Exception"
  /\ Len(slides) >= 3
  /\ Stmt.op = "add_dark_slide"
  /\ Len(Last(slides).shapes) = 1
  /\ Last(slides).shapes[1].fill = [type |-> "solid", rgb |-> << >>]
  /\ Last(slides).shapes[1].line.fill = "None"
  /\ files[OutputPath(script)] = OldArtifact
  /\ NothingWritten
  /\ saves = << >>
  /\ stdout = << >>

\* C15: whenever save has returned or failed, the artifact at the output path is
\* complete or absent: a half-written artifact is never there to be seen.
C15_CompleteOrAbsent ==
  \A f \in OutputPaths : files[f] = Absent \/ files[f].complete

\* C16: if save cannot acquire the output path, the failure surfaces as an
\* IOError; the run ends there, in failure: save was called exactly once and is
\* not called again, and the confirmation line is not printed.
C16_SaveFailureSurfaces ==
  [][/\ (Len(saves') > Len(saves) /\ files'[output_path] # Written(slides))
          => status' = "IOError"
     /\ status' = "IOError" => /\ Len(saves') = 1
                               /\ stdout' = << >>
                               /\ Program[script][pc'].op = "save"
     /\ status = "IOError" => UNCHANGED vars]_vars

\* C16 witness: save could not open the path: the run ended with IOError after
\* one save call, the earlier artifact untouched, nothing printed
C16_Witness ==
  /\ status = "IOError"
  /\ saves = <<OutputPath(script)>>
  /\ files[OutputPath(script)] = OldArtifact
  /\ stdout = << >>

\* C17: in every successful run save is called exactly once, with the script's one
\* output path, after the last slide and the last element were added: the deck
\* written is the whole deck, and once save was called the deck does not change.
C17_SaveOnceAtEnd ==
  [][/\ status' = "done" => /\ saves' = <<OutputPath(script)>>
                            /\ files'[OutputPath(script)] = Written(slides')
     /\ saves # << >> => slides' = slides]_vars

\* C17 witness: a script ran to its end: one save, of the whole deck
C17_Witness ==
  /\ status = "done"
  /\ Len(saves) = 1
  /\ Len(slides) >= 9
  /\ files[saves[1]].deck = slides
  /\ Len(Last(slides).shapes) >= 3

\* C18: the confirmation line is printed exactly once in a successful run, only
\* after save has completed, and it names the path that was passed to save.
C18_ConfirmationAfterSave ==
  /\ status = "done" => Len(stdout) = 1
  /\ stdout # << >> =>
       /\ Len(stdout) = 1
       /\ Len(saves) = 1
       /\ files[saves[1]] = Written(slides)
       /\ Ran("print")
       /\ stdout[1] = Prev.prefix \o saves[1]

\* C18 witness: script 4 ran to its end and printed its line
C18_Witness ==
  /\ status = "done"
  /\ script = 4
  /\ stdout = <<"Created: /docs/promotional-campaign/presentations/video-04-response-sequences.pptx">>
  /\ saves = <<"/docs/promotional-campaign/presentations/video-04-response-sequences.pptx">>

\* C21: regeneration is a full overwrite.  The artifact a completed run leaves is
\* the deck that run built and nothing else, whatever the path held before; and
\* a run over the artifact of an earlier completed run leaves the same artifact.
C21_FullOverwrite ==
  [][/\ status' = "done" =>
          /\ files'[OutputPath(script)] = Written(slides')
          /\ Len(files'[OutputPath(script)].deck) = Count("add_dark_slide")
     /\ (At("save") /\ stdout # << >> /\ files[output_path].complete
           /\ files'[output_path].complete)
          => files'[output_path] = files[output_path]]_vars

\* C21 witness: the second run ended, over the artifact the first run wrote
C21_Witness ==
  /\ status = "done"
  /\ Len(saves) = 2
  /\ Len(stdout) = 2
  /\ files[OutputPath(script)] = Written(slides)

\* C22: the canvas is 16:9 and fixed.  From the first slide on, the canvas is
\* the 13.333 in by 7.5 in one, in the library's integer unit its
\* width * 9 = height * 16, and no later step changes it.
C22_SixteenByNine ==
  [][slides' # << >> =>
       /\ slide_width' = Inches(13333)
       /\ slide_height' = Inches(7500)
       /\ slide_width' * 9 = slide_height' * 16
       /\ slides # << >> => UNCHANGED <<slide_width, slide_height>>]_vars

\* the colour values of the palette of script v
PaletteColors(v) == {Palette[v][name] : name \in DOMAIN Palette[v]}

\* the builders that make composites of a slide's elements
CompositeOps ==
  {"add_title", "add_subtitle", "add_code_block", "add_bullet_point", "add_service_box",
   "add_box"}

\* every colour set on element e is a colour of the palette of script v
ColorsFromPalette(v, e) ==
  /\ e.fill.rgb # << >> => e.fill.rgb \in PaletteColors(v)
  /\ \A i \in 1..Len(e.paragraphs) :
       e.paragraphs[i].color # << >> => e.paragraphs[i].color \in PaletteColors(v)

\* C23: every fill colour and font colour a composite builder applies is a colour
\* of the script's palette, not a colour value written out inside the builder.
C23_ColorsFromPalette ==
  [][(status = "running" /\ pc <= Len(Program[script]) /\ Stmt.op \in CompositeOps) =>
       \A i \in (Len(Shapes) + 1)..Len(slides'[slide].shapes) :
         ColorsFromPalette(script, slides'[slide].shapes[i])]_vars

\* C24 as claimed: a slide enters the deck's slide sequence only once it has its
\* background and has been populated, so no step changes a slide that is
\* already in the deck.
C24_SlidesEnterPopulated ==
  [][\A s \in 1..Len(slides) : slides'[s] = slides[s]]_vars

\* C24 amended: a slide enters the deck's slide sequence when it is created, as
\* the last slide, holding its background and nothing else; it is populated
\* afterwards, while it is the deck's last slide and the script's active one,
\* and before save is called.
C24_SlidesPopulatedInDeck ==
  [][/\ Len(slides') > Len(slides) =>
          /\ Len(slides') = Len(slides) + 1
          /\ slide' = Len(slides')
          /\ Len(Last(slides').shapes) = 1
          /\ IsBackground(Last(slides').shapes[1])
     /\ \A s \in 1..Len(slides) :
          slides'[s] # slides[s] =>
            /\ s = Len(slides)
            /\ s = slide
            /\ saves = << >>]_vars

\* C24 witness: the deck's last slide holds only its background while earlier
\* slides are populated: it is in the deck and still to be populated
C24_Witness ==
  /\ Ran("add_dark_slide")
  /\ Len(slides) >= 2
  /\ slide = Len(slides)
  /\ Len(Shapes) = 1
  /\ Len(slides[1].shapes) >= 2
  /\ Program[script][pc].op \in CompositeOps

\* C25: two decks built by separate create_presentation() calls share no state.
\* The second call's deck starts with zero slides, and no step of the second
\* call changes the slides or elements of the deck the first call built.
C25_DecksIndependent ==
  [][/\ CallAgain => /\ slides' = << >>
                     /\ other' = slides
     /\ other # << >> => other' = other]_vars

\* C25 witness: the second call has built several slides of its own deck, next
\* to the finished deck of the first call
C25_Witness ==
  /\ other # << >>
  /\ Len(slides) >= 2
  /\ Len(slides) < Len(other)
  /\ Ran("add_title")
  /\ \A s \in 1..Len(slides) : slides[s] = other[s] \/ s = Len(slides)

\* C26: the theme is one constant mapping shared by all decks.  Every colour name
\* the running script defines has the same colour value in every other script
\* that defines the name.
C26_OneTheme ==
  \A w \in 1..4 :
    \A name \in (DOMAIN Palette[script]) \cap (DOMAIN Palette[w]) :
      Palette[script][name] = Palette[w][name]

\* C27: whenever a step changes an element that was already on a slide (its
\* box, fill, line, text, styling or paragraphs), that element is the most
\* recently appended element of the active slide.
C27_OnlyLastElementChanges ==
  [][\A s \in 1..Len(slides) :
       \A i \in 1..Len(slides[s].shapes) :
         slides'[s].shapes[i] # slides[s].shapes[i] =>
           /\ s = slide
           /\ i = Len(slides[s].shapes)]_vars

\* C27 witness: the text of a second paragraph was set on the last element of a
\* slide that holds earlier shapes and text boxes
C27_Witness ==
  /\ Ran("text")
  /\ p[1] = slide
  /\ p[2] = Len(Shapes)
  /\ p[3] >= 2
  /\ Len(Shapes) >= 4
  /\ Last(Shapes).paragraphs[p[3]].text # ""

\* text box t has a positive size and lies within the box of shape b, edges
\* included
Within(t, b) ==
  /\ t.width > 0
  /\ t.height > 0
  /\ b.left <= t.left
  /\ b.top <= t.top
  /\ t.left + t.width <= b.left + b.width
  /\ t.top + t.height <= b.top + b.height

\* C28: add_code_block (scripts 1, 2 and 4) and add_service_box, called with a
\* box more than 0.4 in wide and more than 0.4 in high, make a backing shape
\* at that box and a text box of positive width and height that lies entirely
\* inside it.
C28_InsetInsideBacking ==
  [][\A left \in InsetLefts, top \in InsetTops, width \in InsetWidths, height \in InsetHeights :
       ((CallAddCodeBlockAlone(left, top, width, height)
           \/ CallAddServiceBoxAlone(left, top, width, height))
          /\ width > Inches(400) /\ height > Inches(400))
       => LET new == slides'[slide].shapes
              back == new[Len(Shapes) + 1]
              txt == new[Len(Shapes) + 2]
          IN  /\ Len(new) = Len(Shapes) + 2
              /\ <<back.left, back.top, back.width, back.height>> = <<left, top, width, height>>
              /\ txt.type = "textbox"
              /\ Within(txt, back)]_vars

\* C28 witness: a service box one unit over 0.4 in wide and high: its text box is
\* one unit wide and high, and inside the backing shape
C28_Witness ==
  /\ status = "builders"
  /\ script = 2
  /\ Len(Shapes) >= 3
  /\ Shapes[2].width = Inches(400) + 1
  /\ Shapes[2].height = Inches(400) + 1
  /\ Len(Shapes[3].paragraphs) = 2
  /\ Shapes[3].width = 1
  /\ Shapes[3].height = 1
  /\ Within(Shapes[3], Shapes[2])

\* the three-column layouts: the script, the slide, and the gap the script
\* leaves between two columns (gap_between, gap, term_gap)
ThreeColumnLayouts ==
  { [script |-> 1, slide |-> 13, gap |-> Inches(500)],
    [script |-> 2, slide |-> 4, gap |-> Inches(400)],
    [script |-> 2, slide |-> 9, gap |-> Inches(400)] }

\* the rounded boxes of slide n, in the order they were added
Columns(n) ==
  SelectSeq(slides[n].shapes,
            LAMBDA e : e.type = "autoshape" /\ e.kind = "ROUNDED_RECTANGLE")

\* C29: in each three-column layout (script 1 slide 13, script 2 slides 4 and
\* 9) the boxes stand at start_left + k * (box_width + gap) for k = 0, 1, 2:
\* every two of them are disjoint horizontally, neighbours are exactly the gap
\* apart, and no box reaches past the right edge of the canvas; the finished
\* slide has all three.
C29_ThreeColumns ==
  \A layout \in ThreeColumnLayouts :
    (script = layout.script /\ status # "builders" /\ Len(slides) >= layout.slide) =>
      LET c == Columns(layout.slide)
      IN  /\ Len(c) <= 3
          /\ (status = "done" => Len(c) = 3)
          /\ \A k \in 1..Len(c) :
               /\ c[k].width > 0
               /\ c[k].width = c[1].width
               /\ c[k].left = c[1].left + (k - 1) * (c[1].width + layout.gap)
               /\ c[k].left + c[k].width <= slide_width
          /\ \A j, k \in 1..Len(c) :
               j < k => c[j].left + c[j].width <= c[k].left
          /\ \A k \in 1..(Len(c) - 1) :
               c[k + 1].left - (c[k].left + c[k].width) = layout.gap

\* C29 witness: script 2 has finished; the service boxes of slide 4 and the
\* terminals of slide 9 are three each, the third ending at 13 in of 13.333
C29_Witness ==
  /\ script = 2
  /\ status = "done"
  /\ Len(Columns(4)) = 3
  /\ Len(Columns(9)) = 3
  /\ Columns(4)[3].left = Inches(800) + 2 * (Inches(3800) + Inches(400))
  /\ Columns(9)[3].left + Columns(9)[3].width = Inches(13000)
  /\ Inches(13000) < slide_width

\* the loops that stack rows: the script, the slide, the index on the slide of
\* each row's first element (one row per pass of the loop), and the index of
\* the last element of the last row
StackedRows ==
  { [script |-> 4, slide |-> 2, starts |-> <<3, 5, 6, 7, 9>>, last |-> 10],
    [script |-> 4, slide |-> 4, starts |-> <<3, 5, 7>>, last |-> 8],
    [script |-> 4, slide |-> 7, starts |-> <<3, 5, 7, 9>>, last |-> 10],
    [script |-> 4, slide |-> 8, starts |-> <<4, 6, 8, 10>>, last |-> 11],
    [script |-> 3, slide |-> 16, starts |-> <<4, 9, 14, 19>>, last |-> 23] }

Max(S) == CHOOSE x \in S : \A y \in S : y <= x

\* the elements of row r of loop l that the slide has so far
Row(l, r) ==
  { i \in 1..Len(slides[l.slide].shapes) :
      /\ l.starts[r] <= i
      /\ i <= (IF r < Len(l.starts) THEN l.starts[r + 1] - 1 ELSE l.last) }

\* the top of a row is the top of its first element, its bottom the lowest
\* bottom of its elements
RowTop(l, r) == slides[l.slide].shapes[l.starts[r]].top
RowBottom(l, r) ==
  Max({ slides[l.slide].shapes[i].top + slides[l.slide].shapes[i].height : i \in Row(l, r) })

\* C30: in every loop that stacks rows (script 4 slides 2, 4, 7 and 8, script 3
\* slide 16) the step from one row to the next is at least the height the row
\* occupies, from the top of its first box to the bottom of its lowest box, so
\* consecutive rows do not overlap vertically, and no row ends below the
\* canvas; the finished slide has all the rows.
C30_RowsDoNotOverlap ==
  \A l \in StackedRows :
    (script = l.script /\ status # "builders" /\ Len(slides) >= l.slide) =>
      /\ (status = "done" => Len(slides[l.slide].shapes) >= l.last)
      /\ \A r \in 1..Len(l.starts) :
           Row(l, r) # {} =>
             /\ RowBottom(l, r) > RowTop(l, r)
             /\ RowBottom(l, r) <= slide_height
             /\ (r < Len(l.starts) /\ Row(l, r + 1) # {}) =>
                  /\ RowTop(l, r + 1) - RowTop(l, r) >= RowBottom(l, r) - RowTop(l, r)
                  /\ \A i \in Row(l, r + 1) :
                       slides[l.slide].shapes[i].top >= RowBottom(l, r)

\* C30 witness: script 4 has finished; on slide 7 the rows are 1 in apart and
\* each is 0.95 in high (a line at the top, one 0.45 in lower, 0.5 in high)
C30_Witness ==
  /\ script = 4
  /\ status = "done"
  /\ LET l == [script |-> 4, slide |-> 7, starts |-> <<3, 5, 7, 9>>, last |-> 10]
     IN  /\ l \in StackedRows
         /\ Row(l, 4) = {9, 10}
         /\ RowTop(l, 2) - RowTop(l, 1) = Inches(1000)
         /\ RowBottom(l, 1) - RowTop(l, 1) = Inches(450) + Inches(500)
         /\ RowBottom(l, 4) = Inches(1800) + 3 * Inches(1000) + Inches(450) + Inches(500)

====
